---- MODULE Spec2Model ----
(***************************************************************************)
(* Golden-dataset test runner of librsvg (golden_dataset/test_runner):     *)
(* the comment classifier and pollers of fetch_comment.py, the strict      *)
(* validator of validator.py and the orchestration of runner.py.           *)
(*                                                                         *)
(* Python strings are sequences of one-character strings, so that          *)
(* lower(), "in" and string comparison are computed, not assumed.          *)
(* A Python call that may raise is an operator returning a record          *)
(* [exc, val]: exc = "none" and the value, or the exception's message.     *)
(***************************************************************************)
EXTENDS Integers, Sequences, FiniteSets, TLC

(* ------------------------------------------------------------------ *)
(* Bounds of the model                                                 *)
(* ------------------------------------------------------------------ *)
MaxWait == 10
MaxInterval == 5
MaxComments == 2

(* ------------------------------------------------------------------ *)
(* Python strings                                                      *)
(* ------------------------------------------------------------------ *)
UpperChars == <<"A","B","C","D","E","F","G","H","I","J","K","L","M",
                "N","O","P","Q","R","S","T","U","V","W","X","Y","Z">>
LowerChars == <<"a","b","c","d","e","f","g","h","i","j","k","l","m",
                "n","o","p","q","r","s","t","u","v","w","x","y","z">>

LowerChar(c) ==
    IF \E i \in 1..Len(UpperChars) : UpperChars[i] = c
    THEN LowerChars[CHOOSE i \in 1..Len(UpperChars) : UpperChars[i] = c]
    ELSE c

\* str.lower()
lower(s) == [i \in 1..Len(s) |-> LowerChar(s[i])]

\* pattern in s
Contains(pattern, s) ==
    \E i \in 1..(Len(s) - Len(pattern) + 1) :
        SubSeq(s, i, i + Len(pattern) - 1) = pattern

\* any(pattern in s for pattern in patterns)
AnyPatternIn(patterns, s) ==
    \E k \in 1..Len(patterns) : Contains(patterns[k], s)

OkVal(v) == [exc |-> "none", val |-> v]
Raise(msg) == [exc |-> msg, val |-> <<>>]

(* ------------------------------------------------------------------ *)
(* fetch_comment.py: the classifier                                    *)
(* ------------------------------------------------------------------ *)
bot_patterns ==
    << <<"b","o","t">>,
       <<"a","s","s","i","s","t","a","n","t">>,
       <<"r","e","v","i","e","w">>,
       <<"a","g","e","n","t">>,
       <<"l","i","b","r","s","v","g">> >>

signature_patterns ==
    << <<"#","#"," ","c","a","t","e","g","o","r","i","e","s">>,
       <<"#","#"," ","f","o","c","u","s"," ","a","r","e","a","s">>,
       <<"#","#"," ","s","u","g","g","e","s","t","i","o","n","s">>,
       <<"#","#"," ","p","o","t","e","n","t","i","a","l"," ","i","s","s","u","e","s">>,
       <<"p","r"," ","r","e","v","i","e","w">>,
       <<"c","o","d","e"," ","r","e","v","i","e","w">>,
       <<"a","u","t","o","m","a","t","e","d"," ","r","e","v","i","e","w">> >>

(* A comment as gh prints it, one element of the JSON "comments" value.   *)
(* t is the element's JSON type; each field is absent, null or a string   *)
(* (author: absent, null or an object whose login is absent/null/string). *)
Comment(t, author, login, loginv, body, bodyv, createdAt, createdAtv, id) ==
    [t |-> t, author |-> author, login |-> login, loginv |-> loginv,
     body |-> body, bodyv |-> bodyv,
     createdAt |-> createdAt, createdAtv |-> createdAtv, id |-> id]

\* username = comment.get('author', {}).get('login', '').lower()
CommentUsername(comment) ==
    IF comment.t # "dict" THEN Raise("'str' object has no attribute 'get'")
    ELSE IF comment.author = "null" THEN Raise("'NoneType' object has no attribute 'get'")
    ELSE IF comment.author = "absent" \/ comment.login = "absent" THEN OkVal(<<>>)
    ELSE IF comment.login = "null" THEN Raise("'NoneType' object has no attribute 'lower'")
    ELSE OkVal(lower(comment.loginv))

\* body = comment.get('body', '').lower()
CommentBodyLower(comment) ==
    IF comment.body = "absent" THEN OkVal(<<>>)
    ELSE IF comment.body = "null" THEN Raise("'NoneType' object has no attribute 'lower'")
    ELSE OkVal(lower(comment.bodyv))

\* faulty variant: the body is searched without being lower-cased
is_agent_comment_case_sensitive(comment) ==
    LET username == CommentUsername(comment) IN
    IF username.exc # "none" THEN Raise(username.exc)
    ELSE IF AnyPatternIn(bot_patterns, username.val) THEN OkVal(TRUE)
    ELSE LET body == CommentBodyLower(comment) IN
         IF body.exc # "none" THEN Raise(body.exc)
         ELSE OkVal(AnyPatternIn(signature_patterns, comment.bodyv))

\* is_agent_comment(comment): val is the returned bool
is_agent_comment(comment) ==
    LET username == CommentUsername(comment) IN
    IF username.exc # "none" THEN Raise(username.exc)
    ELSE IF AnyPatternIn(bot_patterns, username.val) THEN OkVal(TRUE)
    ELSE LET body == CommentBodyLower(comment) IN
         IF body.exc # "none" THEN Raise(body.exc)
         ELSE OkVal(AnyPatternIn(signature_patterns, body.val))

\* comment.get('body'): None (absent or null) or the string
NoneValue == [k |-> "none", s |-> <<>>]
StrValue(s) == [k |-> "str", s |-> s]
CommentBody(comment) ==
    IF comment.body = "str" THEN StrValue(comment.bodyv) ELSE NoneValue

(* ------------------------------------------------------------------ *)
(* fetch_comment.py: the comment-listing query                         *)
(* ------------------------------------------------------------------ *)
sLoginBot == <<"M","y","B","o","t">>
sLoginHuman == <<"a","l","i","c","e">>
sBodyPlain == <<"L","G","T","M">>
sBodySignature == <<"#","#"," ","F","o","c","u","s"," ","A","r","e","a","s">>
sBodyOther == <<"n","i","c","e">>

cHuman == Comment("dict", "dict", "str", sLoginHuman, "str", sBodyOther, "str", <<"0","9">>, 1)
cBot == Comment("dict", "dict", "str", sLoginBot, "str", sBodyPlain, "str", <<"1","0">>, 2)
cSignature == Comment("dict", "dict", "str", sLoginHuman, "str", sBodySignature, "str", <<"1","1">>, 3)
cBotNoBody == Comment("dict", "dict", "str", sLoginBot, "absent", <<>>, "str", <<"1","2">>, 4)
cBotEmptyBody == Comment("dict", "dict", "str", sLoginBot, "str", <<>>, "absent", <<>>, 5)
cNotDict == Comment("str", "absent", "absent", <<>>, "absent", <<>>, "absent", <<>>, 0)
cAuthorNull == Comment("dict", "null", "absent", <<>>, "str", sBodySignature, "str", <<"1","3">>, 6)
cBodyNull == Comment("dict", "dict", "str", sLoginHuman, "null", <<>>, "str", <<"1","4">>, 7)

WellFormedComments == {cHuman, cBot, cSignature, cBotEmptyBody}
MalformedComments == {cNotDict, cAuthorNull}
CommentPool == WellFormedComments \cup MalformedComments

RECURSIVE SeqsUpTo(_, _)
SeqsUpTo(S, n) ==
    IF n = 0 THEN {<<>>}
    ELSE LET shorter == SeqsUpTo(S, n - 1) IN
         shorter \cup {Append(q, x) : q \in {r \in shorter : Len(r) = n - 1}, x \in S}

(* What the gh command produced: its return code, and its stdout as empty, *)
(* not JSON, or a JSON value of type top whose "comments" member is        *)
(* absent, null, a string or a list of items.                              *)
Response(rc, out, top, comments, items) ==
    [rc |-> rc, out |-> out, top |-> top, comments |-> comments, items |-> items]

rCommandFailed == Response(1, "empty", "null", "absent", <<>>)
rEmptyOutput == Response(0, "empty", "null", "absent", <<>>)
rNotJson == Response(0, "nonjson", "null", "absent", <<>>)
rJsonNull == Response(0, "json", "null", "absent", <<>>)
rJsonList == Response(0, "json", "list", "absent", <<>>)
rNoCommentsKey == Response(0, "json", "dict", "absent", <<>>)
rCommentsNull == Response(0, "json", "dict", "null", <<>>)
rCommentsString == Response(0, "json", "dict", "str", <<cNotDict>>)
rBodyNull == Response(0, "json", "dict", "list", <<cBodyNull>>)
rBotNoBody == Response(0, "json", "dict", "list", <<cBotNoBody>>)

ListResponses ==
    {Response(0, "json", "dict", "list", items) : items \in SeqsUpTo(CommentPool, MaxComments)}

Responses ==
    {rCommandFailed, rEmptyOutput, rNotJson, rJsonNull, rJsonList,
     rNoCommentsKey, rCommentsNull, rCommentsString, rBodyNull, rBotNoBody}
    \cup ListResponses

\* an iterable Python value, or None
ListValue(items) == [k |-> "list", items |-> items]
NoneList == [k |-> "none", items |-> <<>>]

\* fetch_pr_comments(repo_url, pr_number), given what gh produced
fetch_pr_comments(resp) ==
    IF resp.rc # 0 THEN OkVal(ListValue(<<>>))
    ELSE IF resp.out # "json" THEN OkVal(ListValue(<<>>))
    ELSE IF resp.top # "dict" THEN Raise("object has no attribute 'get'")
    ELSE IF resp.comments = "absent" THEN OkVal(ListValue(<<>>))
    ELSE IF resp.comments = "null" THEN OkVal(NoneList)
    ELSE OkVal(ListValue(resp.items))

(* ------------------------------------------------------------------ *)
(* fetch_comment.py: fetch_agent_comment, the blocking poller          *)
(* ------------------------------------------------------------------ *)
VARIABLES fa_pc, fa_max_wait, fa_poll_interval, fa_elapsed,
          fa_queries, fa_sleeps, fa_last, fa_accepting, fa_ret, fa_exc

faVars == <<fa_pc, fa_max_wait, fa_poll_interval, fa_elapsed,
            fa_queries, fa_sleeps, fa_last, fa_accepting, fa_ret, fa_exc>>

\* the state of runner.py's main (declared here: every action frames both);
\* raised records the exception the current evaluation's try block raised
VARIABLES pc, args, config, evaluations, run_list, i, result, results,
          elapsed, steps, raised, prs, saves, printed, summary_done, exit_code,
          uncaught

runnerVars == <<pc, args, config, evaluations, run_list, i, result, results,
                elapsed, steps, raised, prs, saves, printed, summary_done, exit_code,
                uncaught>>

vars == <<faVars, runnerVars>>

\* faulty variant: the scan returns the first comment without classifying it
ScanFromUnclassified(items, k) ==
    IF k > Len(items) THEN [exc |-> "none", found |-> FALSE, val |-> NoneValue]
    ELSE [exc |-> "none", found |-> TRUE, val |-> CommentBody(items[k])]

\* faulty variant: the scan returns the last accepted comment instead of the first
ScanFromLast(items, k) ==
    LET accepted == {j \in k..Len(items) :
                        is_agent_comment(items[j]).exc = "none"
                        /\ is_agent_comment(items[j]).val}
    IN IF accepted = {}
       THEN [exc |-> "none", found |-> FALSE, val |-> NoneValue]
       ELSE [exc |-> "none", found |-> TRUE,
             val |-> CommentBody(items[CHOOSE j \in accepted : \A m \in accepted : m <= j])]

\* for comment in comments: if is_agent_comment(comment): return comment.get('body')
\* exc: the exception the scan raises; found: whether it returned; val: what
RECURSIVE ScanFrom(_, _)
ScanFrom(items, k) ==
    IF k > Len(items) THEN [exc |-> "none", found |-> FALSE, val |-> NoneValue]
    ELSE LET a == is_agent_comment(items[k]) IN
         IF a.exc # "none" THEN [exc |-> a.exc, found |-> FALSE, val |-> NoneValue]
         ELSE IF a.val THEN [exc |-> "none", found |-> TRUE, val |-> CommentBody(items[k])]
         ELSE ScanFrom(items, k + 1)

ScanComments(comments) ==
    IF comments.k = "none"
    THEN [exc |-> "'NoneType' object is not iterable", found |-> FALSE, val |-> NoneValue]
    ELSE ScanFrom(comments.items, 1)

\* one pass of the loop body up to the return or the sleep
FetchAttempt(resp) ==
    LET comments == fetch_pr_comments(resp) IN
    IF comments.exc # "none"
    THEN [exc |-> comments.exc, found |-> FALSE, val |-> NoneValue]
    ELSE ScanComments(comments.val)

\* whether the list a query returned holds a comment the classifier accepts
HasAccepted(resp) ==
    LET comments == fetch_pr_comments(resp) IN
    /\ comments.exc = "none"
    /\ comments.val.k = "list"
    /\ \E k \in 1..Len(comments.val.items) :
          LET a == is_agent_comment(comments.val.items[k]) IN a.exc = "none" /\ a.val

\* faulty variant: the budget test off by one: while elapsed <= max_wait
FaLoopConditionInclusive(e, w) == e <= w

\* while elapsed < max_wait
FaLoopCondition(e, w) == e < w

FaInit ==
    /\ fa_pc = "loop"
    /\ fa_max_wait \in -1..MaxWait
    /\ fa_poll_interval \in 1..MaxInterval
    /\ fa_elapsed = 0
    /\ fa_queries = 0
    /\ fa_sleeps = 0
    /\ fa_last = rEmptyOutput
    /\ fa_accepting = 0
    /\ fa_ret = NoneValue
    /\ fa_exc = "none"

\* while elapsed < max_wait: comments = fetch_pr_comments(...); for comment in comments: ...
FaQuery ==
    /\ fa_pc = "loop"
    /\ UNCHANGED runnerVars
    /\ FaLoopCondition(fa_elapsed, fa_max_wait)
    /\ \E resp \in Responses :
         LET a == FetchAttempt(resp) IN
         /\ fa_last' = resp
         /\ fa_queries' = fa_queries + 1
         /\ fa_accepting' = fa_accepting + (IF HasAccepted(resp) THEN 1 ELSE 0)
         /\ IF a.exc # "none"
            THEN fa_pc' = "raised" /\ fa_exc' = a.exc /\ fa_ret' = fa_ret
            ELSE IF a.found
            THEN fa_pc' = "done" /\ fa_ret' = a.val /\ fa_exc' = fa_exc
            ELSE fa_pc' = "sleep" /\ fa_ret' = fa_ret /\ fa_exc' = fa_exc
    /\ UNCHANGED <<fa_max_wait, fa_poll_interval, fa_elapsed, fa_sleeps>>

\* time.sleep(poll_interval); elapsed += poll_interval
FaSleep ==
    /\ fa_pc = "sleep"
    /\ UNCHANGED runnerVars
    /\ fa_sleeps' = fa_sleeps + 1
    /\ fa_elapsed' = fa_elapsed + fa_poll_interval
    /\ fa_pc' = "loop"
    /\ UNCHANGED <<fa_max_wait, fa_poll_interval, fa_queries, fa_last,
                   fa_accepting, fa_ret, fa_exc>>

\* the loop condition fails: logger.warning("Timeout ..."); return None
FaTimeout ==
    /\ fa_pc = "loop"
    /\ UNCHANGED runnerVars
    /\ ~FaLoopCondition(fa_elapsed, fa_max_wait)
    /\ fa_pc' = "timeout"
    /\ fa_ret' = NoneValue
    /\ UNCHANGED <<fa_max_wait, fa_poll_interval, fa_elapsed, fa_queries,
                   fa_sleeps, fa_last, fa_accepting, fa_exc>>

FaNext == FaQuery \/ FaSleep \/ FaTimeout

(* ------------------------------------------------------------------ *)
(* fetch_comment.py: fetch_latest_agent_comment, the non-blocking fetch *)
(* ------------------------------------------------------------------ *)
\* code point order of the characters timestamps are written with
CharOrder == <<"-","0","1","2","3","4","5","6","7","8","9",":","T","Z">>
Ord(c) == CHOOSE m \in 1..Len(CharOrder) : CharOrder[m] = c

\* a < b for Python strings
RECURSIVE StrLess(_, _)
StrLess(a, b) ==
    IF Len(b) = 0 THEN FALSE
    ELSE IF Len(a) = 0 THEN TRUE
    ELSE IF Ord(Head(a)) # Ord(Head(b)) THEN Ord(Head(a)) < Ord(Head(b))
    ELSE StrLess(Tail(a), Tail(b))

\* c.get('createdAt', '')
CreatedAtKey(comment) ==
    IF comment.createdAt = "str" THEN StrValue(comment.createdAtv)
    ELSE IF comment.createdAt = "null" THEN NoneValue
    ELSE StrValue(<<>>)

\* agent_comments = [c for c in comments if is_agent_comment(c)]
RECURSIVE FilterAgent(_, _)
FilterAgent(items, k) ==
    IF k > Len(items) THEN OkVal(<<>>)
    ELSE LET a == is_agent_comment(items[k]) IN
         IF a.exc # "none" THEN Raise(a.exc)
         ELSE LET rest == FilterAgent(items, k + 1) IN
              IF rest.exc # "none" THEN rest
              ELSE IF a.val THEN OkVal(<<items[k]>> \o rest.val)
              ELSE rest

\* agent_comments.sort(key=..., reverse=True); agent_comments[0]: the sort is
\* stable, so the first of the comments with the greatest key comes first
LatestIndex(agent_comments) ==
    CHOOSE m \in 1..Len(agent_comments) :
        /\ \A j \in 1..Len(agent_comments) :
              ~StrLess(CreatedAtKey(agent_comments[m]).s, CreatedAtKey(agent_comments[j]).s)
        /\ \A j \in 1..(m - 1) :
              StrLess(CreatedAtKey(agent_comments[j]).s, CreatedAtKey(agent_comments[m]).s)

\* fetch_latest_agent_comment(repo_url, pr_number), given what gh produced
fetch_latest_agent_comment(resp) ==
    LET comments == fetch_pr_comments(resp) IN
    IF comments.exc # "none" THEN Raise(comments.exc)
    ELSE IF comments.val.k = "none" THEN Raise("'NoneType' object is not iterable")
    ELSE LET agent_comments == FilterAgent(comments.val.items, 1) IN
         IF agent_comments.exc # "none" THEN Raise(agent_comments.exc)
         ELSE IF Len(agent_comments.val) = 0 THEN OkVal(NoneValue)
         ELSE IF /\ Len(agent_comments.val) >= 2
                 /\ \E m \in 1..Len(agent_comments.val) :
                       CreatedAtKey(agent_comments.val[m]).k = "none"
         THEN Raise("'<' not supported between instances of 'NoneType' and 'str'")
         ELSE OkVal(CommentBody(agent_comments.val[LatestIndex(agent_comments.val)]))

\* comments whose timestamps and bodies the choice of the latest depends on:
\* "9" sorts after "10" and "11", a null createdAt, two equal timestamps
sBodyLate == <<"l","a","t","e">>
sBodyTie == <<"t","i","e">>
cBotLate == Comment("dict", "dict", "str", sLoginBot, "str", sBodyLate, "str", <<"9">>, 8)
cBotNullDate == Comment("dict", "dict", "str", sLoginBot, "str", sBodyOther, "null", <<>>, 9)
cBotTie == Comment("dict", "dict", "str", sLoginBot, "str", sBodyTie, "str", <<"1","0">>, 10)

LatestPool ==
    CommentPool \cup {cBodyNull, cBotNoBody, cBotLate, cBotNullDate, cBotTie}

LatestResponses ==
    {rCommandFailed, rEmptyOutput, rNotJson, rJsonNull, rJsonList,
     rNoCommentsKey, rCommentsNull, rCommentsString}
    \cup {Response(0, "json", "dict", "list", items) :
             items \in SeqsUpTo(LatestPool, MaxComments)}

\* a caller about to call fetch_latest_agent_comment
FlInit ==
    /\ fa_pc = "latest"
    /\ fa_max_wait = 0
    /\ fa_poll_interval = 1
    /\ fa_elapsed = 0
    /\ fa_queries = 0
    /\ fa_sleeps = 0
    /\ fa_last = rEmptyOutput
    /\ fa_accepting = 0
    /\ fa_ret = NoneValue
    /\ fa_exc = "none"

\* the call of fetch_latest_agent_comment: one fetch_pr_comments, no time.sleep
FlCall ==
    /\ fa_pc = "latest"
    /\ UNCHANGED runnerVars
    /\ \E resp \in LatestResponses :
         LET r == fetch_latest_agent_comment(resp) IN
         /\ fa_last' = resp
         /\ fa_queries' = fa_queries + 1
         /\ fa_accepting' = fa_accepting + (IF HasAccepted(resp) THEN 1 ELSE 0)
         /\ IF r.exc # "none"
            THEN fa_pc' = "raised" /\ fa_exc' = r.exc /\ fa_ret' = fa_ret
            ELSE fa_pc' = "done" /\ fa_ret' = r.val /\ fa_exc' = fa_exc
    /\ UNCHANGED <<fa_max_wait, fa_poll_interval, fa_elapsed, fa_sleeps>>

\* what the two fetches gave on one response: first is the outcome of the
\* poller's pass over it, latest that of fetch_latest_agent_comment
BothValue(first, latest) == [k |-> "both", first |-> first, latest |-> latest]
NotCalled == [exc |-> "none", found |-> FALSE, val |-> NoneValue]

\* a caller about to give the response held in fa_last to both fetches
CompareStart ==
    /\ fa_pc = "compare"
    /\ fa_max_wait = 1
    /\ fa_poll_interval = 1
    /\ fa_elapsed = 0
    /\ fa_queries = 0
    /\ fa_sleeps = 0
    /\ fa_last \in LatestResponses
    /\ fa_accepting = 0
    /\ fa_ret = BothValue(NotCalled, NotCalled)
    /\ fa_exc = "none"

\* fetch_agent_comment's first pass (0 < max_wait) over the response
CompareFirst ==
    /\ fa_pc = "compare"
    /\ UNCHANGED runnerVars
    /\ fa_ret' = BothValue(FetchAttempt(fa_last), fa_ret.latest)
    /\ fa_queries' = fa_queries + 1
    /\ fa_pc' = "compare_latest"
    /\ UNCHANGED <<fa_max_wait, fa_poll_interval, fa_elapsed, fa_sleeps, fa_last,
                   fa_accepting, fa_exc>>

\* fetch_latest_agent_comment on the same response
CompareLatest ==
    /\ fa_pc = "compare_latest"
    /\ UNCHANGED runnerVars
    /\ LET r == fetch_latest_agent_comment(fa_last) IN
       fa_ret' = BothValue(fa_ret.first,
                           [exc |-> r.exc, found |-> r.exc = "none",
                            val |-> IF r.exc = "none" THEN r.val ELSE NoneValue])
    /\ fa_queries' = fa_queries + 1
    /\ fa_pc' = "done"
    /\ UNCHANGED <<fa_max_wait, fa_poll_interval, fa_elapsed, fa_sleeps, fa_last,
                   fa_accepting, fa_exc>>

\* logins and bodies the classifier is called with: each pattern of the two
\* lists in some letter case, near misses, the empty string
sLoginReviewerBot == <<"l","i","b","r","s","v","g","-","r","e","v","i","e","w","e","r","-","b","o","t">>
sLoginAssistant == <<"A","I","-","A","s","s","i","s","t","a","n","t">>
sLoginReviewer == <<"R","e","V","i","e","w","e","r">>
sLoginAgent == <<"a","g","e","n","t","0","0","7">>
sBodyFocusUpper == <<"s","e","e"," ","#","#"," ","F","O","C","U","S"," ","A","R","E","A","S">>
sBodyFocusLower == <<"#","#"," ","f","o","c","u","s"," ","a","r","e","a","s">>
sBodyCategories == <<"#","#"," ","C","a","t","e","g","o","r","i","e","s">>
sBodySuggestions == <<"#","#"," ","S","u","g","g","e","s","t","i","o","n","s",":">>
sBodyIssues == <<"#","#"," ","P","o","t","e","n","t","i","a","l"," ","I","s","s","u","e","s">>
sBodyPrReview == <<"P","R"," ","R","e","v","i","e","w">>
sBodyCodeReview == <<"C","o","d","e"," ","R","e","v","i","e","w">>
sBodyAutomated == <<"A","u","t","o","m","a","t","e","d"," ","R","e","v","i","e","w">>
sBodyNoSpace == <<"#","#","F","o","c","u","s"," ","A","r","e","a","s">>

ClassifyLogins ==
    {sLoginReviewerBot, sLoginBot, sLoginAssistant, sLoginReviewer, sLoginAgent,
     sLoginHuman, <<>>}
ClassifyBodies ==
    {sBodySignature, sBodyFocusUpper, sBodyFocusLower, sBodyCategories,
     sBodySuggestions, sBodyIssues, sBodyPrReview, sBodyCodeReview, sBodyAutomated,
     sBodyNoSpace, sBodyPlain, <<>>}

\* comments with the author, the login or the body absent or a string, and
\* the three malformed ones (not an object, author null, body null)
ClassifyPool ==
    {Comment("dict", "dict", "str", login, "str", body, "absent", <<>>, 0) :
        login \in ClassifyLogins, body \in ClassifyBodies}
    \cup {Comment("dict", "dict", "str", login, "absent", <<>>, "absent", <<>>, 0) :
             login \in ClassifyLogins}
    \cup {Comment("dict", author, "absent", <<>>, "str", body, "absent", <<>>, 0) :
             author \in {"dict", "absent"}, body \in ClassifyBodies}
    \cup {Comment("dict", author, "absent", <<>>, "absent", <<>>, "absent", <<>>, 0) :
             author \in {"dict", "absent"}}
    \cup {cNotDict, cAuthorNull, cBodyNull}

\* the bool is_agent_comment returned
BoolValue(b) == [k |-> "bool", b |-> b]

\* a caller about to call is_agent_comment on the comment held in fa_last
ClassifyStart ==
    /\ fa_pc = "classify"
    /\ fa_max_wait = 0
    /\ fa_poll_interval = 1
    /\ fa_elapsed = 0
    /\ fa_queries = 0
    /\ fa_sleeps = 0
    /\ \E comment \in ClassifyPool :
          fa_last = Response(0, "json", "dict", "list", <<comment>>)
    /\ fa_accepting = 0
    /\ fa_ret = NoneValue
    /\ fa_exc = "none"

\* the call of is_agent_comment
Classify ==
    /\ fa_pc = "classify"
    /\ UNCHANGED runnerVars
    /\ LET r == is_agent_comment(fa_last.items[1]) IN
       IF r.exc # "none"
       THEN fa_pc' = "raised" /\ fa_exc' = r.exc /\ fa_ret' = fa_ret
       ELSE fa_pc' = "done" /\ fa_ret' = BoolValue(r.val) /\ fa_exc' = fa_exc
    /\ UNCHANGED <<fa_max_wait, fa_poll_interval, fa_elapsed, fa_queries,
                   fa_sleeps, fa_last, fa_accepting>>


(* ------------------------------------------------------------------ *)
(* validator.py                                                        *)
(* ------------------------------------------------------------------ *)
IsSpace(c) == c \in {" ", "\t", "\n"}

\* str.strip()
RECURSIVE LStrip(_)
LStrip(s) == IF Len(s) > 0 /\ IsSpace(Head(s)) THEN LStrip(Tail(s)) ELSE s
RECURSIVE RStrip(_)
RStrip(s) ==
    IF Len(s) > 0 /\ IsSpace(s[Len(s)]) THEN RStrip(SubSeq(s, 1, Len(s) - 1)) ELSE s
strip(s) == RStrip(LStrip(s))

\* re.sub(r'\s+', ' ', text)
RECURSIVE CollapseSpaces(_)
CollapseSpaces(s) ==
    IF Len(s) = 0 THEN <<>>
    ELSE IF IsSpace(Head(s)) THEN <<" ">> \o CollapseSpaces(LStrip(s))
    ELSE <<Head(s)>> \o CollapseSpaces(Tail(s))

normalize_text(text) == CollapseSpaces(strip(lower(text)))

\* a field of a dict: absent, null, a list of strings, or ("dicts") a list
\* that holds a dict, which set() cannot hash
Field(k, items) == [k |-> k, items |-> items]
AbsentField == Field("absent", <<>>)

\* set(normalize_text(item) for item in items if item) raises TypeError
NormalizeRaises(field) == field.k = "dicts"

\* normalize_set(d.get(key, [])): not a list -> set(); falsy items dropped
normalize_set(field) ==
    IF field.k # "list" THEN {}
    ELSE {normalize_text(field.items[m]) :
             m \in {j \in 1..Len(field.items) : Len(field.items[j]) > 0}}

\* faulty variant: the division the wrong way round
PctInverted(n, d) == [n |-> d, d |-> n]

\* match_percentage n / d * 100 as the fraction [n, d]; 100 is [1, 1]
Pct(n, d) == [n |-> n, d |-> d]

\* faulty variant: the exact policy tolerates extra items, as the subset policy does
validate_exact_extra_tolerated(actual, expected) ==
    LET actual_set == normalize_set(actual)
        expected_set == normalize_set(expected)
    IN [passed |-> expected_set \ actual_set = {},
        expected |-> expected_set,
        actual |-> actual_set,
        missing |-> expected_set \ actual_set,
        extra |-> actual_set \ expected_set,
        match_percentage |->
            IF expected_set # {}
            THEN Pct(Cardinality(actual_set \cap expected_set), Cardinality(expected_set))
            ELSE Pct(1, 1)]

\* validate_categories, validate_focus_areas
validate_exact(actual, expected) ==
    LET actual_set == normalize_set(actual)
        expected_set == normalize_set(expected)
    IN [passed |-> actual_set = expected_set,
        expected |-> expected_set,
        actual |-> actual_set,
        missing |-> expected_set \ actual_set,
        extra |-> actual_set \ expected_set,
        match_percentage |->
            IF expected_set # {}
            THEN Pct(Cardinality(actual_set \cap expected_set), Cardinality(expected_set))
            ELSE Pct(1, 1)]

validate_categories(actual, expected) == validate_exact(actual, expected)
validate_focus_areas(actual, expected) == validate_exact(actual, expected)

\* faulty variant: the subset policy demands equal sets, as the exact policy does
validate_subset_exact(actual, expected) ==
    LET actual_set == normalize_set(actual)
        expected_set == normalize_set(expected)
        found == expected_set \cap actual_set
        missing == expected_set \ actual_set
    IN [passed |-> actual_set = expected_set,
        expected |-> expected_set,
        actual |-> actual_set,
        found |-> found,
        missing |-> missing,
        match_percentage |->
            IF expected_set # {}
            THEN Pct(Cardinality(found), Cardinality(expected_set))
            ELSE Pct(1, 1)]

\* faulty variant: the percentage is taken over the actual set's size
validate_subset_over_actual(actual, expected) ==
    LET actual_set == normalize_set(actual)
        expected_set == normalize_set(expected)
        found == expected_set \cap actual_set
        missing == expected_set \ actual_set
    IN [passed |-> Cardinality(missing) = 0,
        expected |-> expected_set,
        actual |-> actual_set,
        found |-> found,
        missing |-> missing,
        match_percentage |->
            IF actual_set # {}
            THEN Pct(Cardinality(found), Cardinality(actual_set))
            ELSE Pct(1, 1)]

\* validate_suggestions, validate_potential_issues
validate_subset(actual, expected) ==
    LET actual_set == normalize_set(actual)
        expected_set == normalize_set(expected)
        found == expected_set \cap actual_set
        missing == expected_set \ actual_set
    IN [passed |-> Cardinality(missing) = 0,
        expected |-> expected_set,
        actual |-> actual_set,
        found |-> found,
        missing |-> missing,
        match_percentage |->
            IF expected_set # {}
            THEN Pct(Cardinality(found), Cardinality(expected_set))
            ELSE Pct(1, 1)]

validate_suggestions(actual, expected) == validate_subset(actual, expected)
validate_potential_issues(actual, expected) == validate_subset(actual, expected)

\* variant of MeanPct: a weighted mean that counts the first score twice
\* and leaves out the last
MeanPctWeighted(a, b, c, e) ==
    Pct(2 * a.n * b.d * c.d + b.n * a.d * c.d + c.n * a.d * b.d,
        4 * a.d * b.d * c.d)

\* sum(scores) / len(scores) of four fractions, as a fraction of 100
MeanPct(a, b, c, e) ==
    Pct(a.n * b.d * c.d * e.d + b.n * a.d * c.d * e.d
        + c.n * a.d * b.d * e.d + e.n * a.d * b.d * c.d,
        4 * a.d * b.d * c.d * e.d)

\* variant of OverallPass: any() in place of all()
OverallPassAny(categories, focus_areas, suggestions, potential_issues) ==
    \/ categories.passed \/ focus_areas.passed
    \/ suggestions.passed \/ potential_issues.passed

\* all([...]) over the four passed flags
OverallPass(categories, focus_areas, suggestions, potential_issues) ==
    /\ categories.passed /\ focus_areas.passed
    /\ suggestions.passed /\ potential_issues.passed

\* the keys of the dict validate_strict returns
ValidationKeys ==
    {"evaluation_id", "pr_title", "difficulty", "categories", "focus_areas",
     "suggestions", "potential_issues", "overall_pass", "overall_score"}

\* validate_strict raises: one of the eight normalize_set calls does
ValidateStrictRaises(actual, expected) ==
    \/ NormalizeRaises(actual.categories) \/ NormalizeRaises(expected.categories)
    \/ NormalizeRaises(actual.focus_areas)
    \/ NormalizeRaises(expected.expected_review.focus_areas)
    \/ NormalizeRaises(actual.suggestions)
    \/ NormalizeRaises(expected.expected_review.suggestions)
    \/ NormalizeRaises(actual.potential_issues)
    \/ NormalizeRaises(expected.expected_review.potential_issues)

\* faulty variant: the expected suggestions and potential issues change places
validate_strict_crossed(actual, expected) ==
    LET categories == validate_categories(actual.categories, expected.categories)
        focus_areas == validate_focus_areas(actual.focus_areas, expected.expected_review.focus_areas)
        suggestions ==
            validate_suggestions(actual.suggestions, expected.expected_review.potential_issues)
        potential_issues ==
            validate_potential_issues(actual.potential_issues,
                                      expected.expected_review.suggestions)
    IN [k |-> "dict",
        evaluation_id |-> expected.id,
        pr_title |-> expected.pr_title,
        categories |-> categories,
        focus_areas |-> focus_areas,
        suggestions |-> suggestions,
        potential_issues |-> potential_issues,
        overall_pass |-> OverallPass(categories, focus_areas, suggestions, potential_issues),
        overall_score |-> MeanPct(categories.match_percentage, focus_areas.match_percentage,
                                  suggestions.match_percentage,
                                  potential_issues.match_percentage)]

\* validate_strict(actual, expected): actual is the parsed dict, expected the evaluation
validate_strict(actual, expected) ==
    LET categories == validate_categories(actual.categories, expected.categories)
        focus_areas == validate_focus_areas(actual.focus_areas, expected.expected_review.focus_areas)
        suggestions == validate_suggestions(actual.suggestions, expected.expected_review.suggestions)
        potential_issues ==
            validate_potential_issues(actual.potential_issues,
                                      expected.expected_review.potential_issues)
    IN [k |-> "dict",
        evaluation_id |-> expected.id,
        pr_title |-> expected.pr_title,
        categories |-> categories,
        focus_areas |-> focus_areas,
        suggestions |-> suggestions,
        potential_issues |-> potential_issues,
        overall_pass |-> OverallPass(categories, focus_areas, suggestions, potential_issues),
        overall_score |-> MeanPct(categories.match_percentage, focus_areas.match_percentage,
                                  suggestions.match_percentage,
                                  potential_issues.match_percentage)]

(* ------------------------------------------------------------------ *)
(* runner.py: inputs                                                   *)
(* ------------------------------------------------------------------ *)
MaxEvals == 3
DefaultMaxWait == 300
DefaultPollInterval == 5
CheckpointEvery == 5

NoneInt == [k |-> "none", v |-> 0]
IntValue(n) == [k |-> "int", v |-> n]
NoError == [k |-> "none", msg |-> ""]
ErrorMsg(msg) == [k |-> "str", msg |-> msg]
NoneDict == [k |-> "none"]

sSec == <<"s","e","c">>
sSecVariant == <<"S","e","c"," ">>
sPerf == <<"p","e","r","f">>
sInput == <<"i","n"," ","v","a","l">>
sInputVariant == <<" ","I","n"," "," ","V","a","l">>
sBounds == <<"a","d","d">>
sAlt == <<"a","l","t">>
sTitle == <<"F","i","x">>

\* an evaluation record of the evaluations file
Evaluation(has_id, id, has_title) ==
    [has_id |-> has_id, id |-> id, has_title |-> has_title, pr_title |-> sTitle,
     categories |-> Field("list", <<sSec, sPerf>>),
     expected_review |->
        [focus_areas |-> Field("list", <<sInput>>),
         suggestions |-> Field("list", <<sBounds>>),
         potential_issues |-> Field("list", <<>>)]]

EvalGood(id) == Evaluation(TRUE, id, TRUE)
EvalNoTitle(id) == Evaluation(TRUE, id, FALSE)

\* evaluations files: the k-th record has id k and is well-formed or lacks pr_title
EvaluationLists ==
    UNION {{[k \in 1..n |-> IF k \in bad THEN EvalNoTitle(k) ELSE EvalGood(k)] :
               bad \in SUBSET (1..n)} : n \in 0..MaxEvals}

\* what the Review Parser returns: a dict, or None
Parsed(categories, focus_areas, suggestions, potential_issues) ==
    [k |-> "dict", categories |-> categories, focus_areas |-> focus_areas,
     suggestions |-> suggestions, potential_issues |-> potential_issues]

pExact == Parsed(Field("list", <<sSecVariant, sPerf>>), Field("list", <<sInputVariant>>),
                 Field("list", <<sBounds, sAlt>>), Field("list", <<sAlt>>))
pMissing == Parsed(Field("list", <<sSec>>), Field("list", <<sInput, sAlt>>),
                   Field("list", <<>>), AbsentField)
pUnhashable == Parsed(Field("dicts", <<>>), Field("list", <<sInput>>),
                      Field("list", <<sBounds>>), AbsentField)
ParsedPool == {pExact, pMissing, pUnhashable, NoneDict}

\* config.yaml as loaded: None (an empty file) or a dict
Config(has_github, has_runner, max_wait_seconds, poll_interval) ==
    [k |-> "dict", has_github |-> has_github, has_runner |-> has_runner,
     max_wait_seconds |-> max_wait_seconds, poll_interval |-> poll_interval]
NoneConfig ==
    [k |-> "none", has_github |-> FALSE, has_runner |-> FALSE,
     max_wait_seconds |-> NoneInt, poll_interval |-> NoneInt]

ConfigPool ==
    {Config(TRUE, TRUE, IntValue(10), NoneInt),
     Config(TRUE, TRUE, IntValue(0), IntValue(5)),
     Config(TRUE, TRUE, NoneInt, IntValue(150)),
     Config(FALSE, TRUE, IntValue(10), IntValue(5)),
     Config(TRUE, FALSE, NoneInt, NoneInt),
     NoneConfig}

\* --id: not given, a list of ints, or text int() rejects
NoIds == [k |-> "none", ids |-> <<>>]
IdList(ids) == [k |-> "list", ids |-> ids]
BadIds == [k |-> "invalid", ids |-> <<>>]
IdArgs == {NoIds, IdList(<<2>>), IdList(<<9>>), IdList(<<3, 1, 3>>), BadIds}

\* the gh outputs the runner's polls are tried on
PollResponses ==
    {rCommandFailed, rNoCommentsKey, rCommentsNull,
     Response(0, "json", "dict", "list", <<cHuman>>),
     Response(0, "json", "dict", "list", <<cHuman, cBot>>),
     Response(0, "json", "dict", "list", <<cBotEmptyBody>>),
     rBotNoBody}

(* ------------------------------------------------------------------ *)
(* runner.py: state                                                    *)
(* ------------------------------------------------------------------ *)
NoResult ==
    [evaluation_id |-> 0, pr_title |-> <<>>, status |-> "none",
     pr_number |-> NoneInt, pr_url |-> NoneInt, agent_comment |-> NoneValue,
     parsed_output |-> NoneDict, validation |-> NoneDict, error |-> NoError]

\* a line of standard output
Line(line, n, items) == [line |-> line, n |-> n, items |-> items]

RunnerStart(p) ==
    /\ pc = p
    /\ config = NoneConfig
    /\ evaluations = <<>>
    /\ run_list = <<>>
    /\ i = 0
    /\ result = NoResult
    /\ results = <<>>
    /\ elapsed = 0
    /\ steps = <<>>
    /\ raised = NoError
    /\ prs = 0
    /\ saves = <<>>
    /\ printed = <<>>
    /\ summary_done = FALSE
    /\ exit_code = -1
    /\ uncaught = NoError

RunnerInit ==
    /\ args \in [id : IdArgs, dry_run : BOOLEAN]
    /\ RunnerStart("load_config")

RunnerIdle ==
    /\ args = [id |-> NoIds, dry_run |-> FALSE]
    /\ RunnerStart("idle")

FaIdle ==
    /\ fa_pc = "idle"
    /\ fa_max_wait = 0
    /\ fa_poll_interval = 1
    /\ fa_elapsed = 0
    /\ fa_queries = 0
    /\ fa_sleeps = 0
    /\ fa_last = rEmptyOutput
    /\ fa_accepting = 0
    /\ fa_ret = NoneValue
    /\ fa_exc = "none"

(* ------------------------------------------------------------------ *)
(* runner.py: main, before the batch                                   *)
(* ------------------------------------------------------------------ *)
\* an exception nothing catches: the traceback is printed, the exit status is 1
Crash(msg) ==
    /\ pc' = "exited"
    /\ exit_code' = 1
    /\ uncaught' = ErrorMsg(msg)

\* sys.exit(code)
SysExit(code) ==
    /\ pc' = "exited"
    /\ exit_code' = code
    /\ uncaught' = uncaught

\* faulty variant: the failure is logged and the process exits with status 0
ConfigErrorExitZero(failure) ==
    /\ printed' = Append(printed, Line(failure, 0, {}))
    /\ SysExit(0)

\* except FileNotFoundError / YAMLError / JSONDecodeError: logger.error(...); sys.exit(1)
ConfigError(failure) ==
    /\ printed' = Append(printed, Line(failure, 0, {}))
    /\ SysExit(1)

\* config = load_config(args.config), FileNotFoundError and YAMLError handled
LoadConfig ==
    /\ pc = "load_config"
    /\ UNCHANGED <<faVars, raised>>
    /\ \/ \E cfg \in ConfigPool :
            /\ config' = cfg
            /\ pc' = "load_evaluations"
            /\ UNCHANGED <<printed, exit_code, uncaught>>
       \/ \E failure \in {"FileNotFoundError", "YAMLError"} :
            /\ ConfigError(failure)
            /\ UNCHANGED config
    /\ UNCHANGED <<args, evaluations, run_list, i, result, results, elapsed, steps,
                   prs, saves, summary_done>>

\* config.get('runner', {})... ; evaluations = load_evaluations(config)
LoadEvaluations ==
    /\ pc = "load_evaluations"
    /\ UNCHANGED <<faVars, raised>>
    /\ IF config.k = "none"
       THEN /\ Crash("'NoneType' object has no attribute 'get'")
            /\ UNCHANGED <<evaluations, printed>>
       ELSE \/ \E evs \in EvaluationLists :
                 /\ evaluations' = evs
                 /\ pc' = "parse_ids"
                 /\ UNCHANGED <<printed, exit_code, uncaught>>
            \/ \E failure \in {"FileNotFoundError", "JSONDecodeError"} :
                 /\ ConfigError(failure)
                 /\ UNCHANGED evaluations
    /\ UNCHANGED <<args, config, run_list, i, result, results, elapsed, steps,
                   prs, saves, summary_done>>

\* e['id'] in evaluation_ids
IdSelected(e) == \E k \in 1..Len(args.id.ids) : args.id.ids[k] = e.id

\* the evaluations the dry run lists, and the first of them whose print raises
DryRunSelected ==
    SelectSeq(evaluations, LAMBDA e : args.id.k = "none" \/ IdSelected(e))
DryRunLines(n) == [k \in 1..n |-> Line("dry-run", DryRunSelected[k].id, {})]
DryRunBad == {k \in 1..Len(DryRunSelected) : ~DryRunSelected[k].has_title}
Min(S) == CHOOSE x \in S : \A y \in S : x <= y

\* main: parse --id, then the dry run
ParseIds ==
    /\ pc = "parse_ids"
    /\ UNCHANGED <<faVars, raised>>
    /\ IF args.id.k = "invalid"
       THEN SysExit(1) /\ UNCHANGED printed
       ELSE IF args.dry_run
       THEN IF DryRunBad # {}
            THEN /\ printed' = DryRunLines(Min(DryRunBad) - 1)
                 /\ Crash("'pr_title'")
            ELSE /\ printed' = DryRunLines(Len(DryRunSelected))
                 /\ SysExit(0)
       ELSE /\ pc' = "run_evaluations"
            /\ UNCHANGED <<printed, exit_code, uncaught>>
    /\ UNCHANGED <<args, config, evaluations, run_list, i, result, results, elapsed,
                   steps, prs, saves, summary_done>>

(* ------------------------------------------------------------------ *)
(* runner.py: run_evaluations and run_single_evaluation                *)
(* ------------------------------------------------------------------ *)
\* faulty variant: the evaluations in the order and multiplicity of the ids given
FilterEvaluationsInIdOrder ==
    IF args.id.k = "list"
    THEN LET found == SelectSeq(args.id.ids,
                                LAMBDA x : \E k \in 1..Len(evaluations) : evaluations[k].id = x)
         IN [k \in 1..Len(found) |->
                evaluations[CHOOSE j \in 1..Len(evaluations) : evaluations[j].id = found[k]]]
    ELSE evaluations

\* evaluations = [e for e in evaluations if e['id'] in evaluation_ids]
FilterEvaluations ==
    IF args.id.k = "list" THEN SelectSeq(evaluations, IdSelected) ELSE evaluations

\* run_evaluations up to the loop: filter, "No evaluations to run"
RunEvaluationsStart ==
    /\ pc = "run_evaluations"
    /\ UNCHANGED <<faVars, raised>>
    /\ run_list' = FilterEvaluations
    /\ results' = <<>>
    /\ IF Len(FilterEvaluations) = 0
       THEN pc' = "final_save" /\ i' = i
       ELSE pc' = "eval_begin" /\ i' = 1
    /\ UNCHANGED <<args, config, evaluations, result, elapsed, steps, prs, saves,
                   printed, summary_done, exit_code, uncaught>>

\* faulty variant: the loop takes the evaluations from the end of the list
evaluationFromEnd == run_list[Len(run_list) - i + 1]

\* for i, evaluation in enumerate(evaluations, 1)
evaluation == run_list[i]
total == Len(run_list)

\* runner_config.get('max_wait_seconds', 300), runner_config.get('poll_interval', 5)
max_wait ==
    IF config.max_wait_seconds.k = "int" THEN config.max_wait_seconds.v ELSE DefaultMaxWait
poll_interval ==
    IF config.poll_interval.k = "int" THEN config.poll_interval.v ELSE DefaultPollInterval

\* faulty variant: the result starts out as passed
PendingResultPassed(e) ==
    [evaluation_id |-> e.id, pr_title |-> e.pr_title, status |-> "passed",
     pr_number |-> NoneInt, pr_url |-> NoneInt, agent_comment |-> NoneValue,
     parsed_output |-> NoneDict, validation |-> NoneDict, error |-> NoError]

\* result = {..., 'status': 'pending', ...}
PendingResult(e) ==
    [evaluation_id |-> e.id, pr_title |-> e.pr_title, status |-> "pending",
     pr_number |-> NoneInt, pr_url |-> NoneInt, agent_comment |-> NoneValue,
     parsed_output |-> NoneDict, validation |-> NoneDict, error |-> NoError]

\* print_progress(i, total, evaluation['pr_title']); run_single_evaluation up to try
EvalBegin ==
    /\ pc = "eval_begin"
    /\ UNCHANGED faVars
    /\ IF ~evaluation.has_title
       THEN Crash("'pr_title'") /\ UNCHANGED <<printed, result, steps>>
       ELSE IF ~config.has_github
       THEN /\ Crash("'github'")
            /\ printed' = Append(printed, Line("progress", i, {}))
            /\ UNCHANGED <<result, steps>>
       ELSE IF ~config.has_runner
       THEN /\ Crash("'runner'")
            /\ printed' = Append(printed, Line("progress", i, {}))
            /\ UNCHANGED <<result, steps>>
       ELSE /\ printed' = Append(printed, Line("progress", i, {}))
            /\ result' = PendingResult(evaluation)
            /\ steps' = <<>>
            /\ pc' = "create_pr"
            /\ UNCHANGED <<exit_code, uncaught>>
    /\ raised' = NoError
    /\ UNCHANGED <<args, config, evaluations, run_list, i, results, elapsed, prs,
                   saves, summary_done>>

\* faulty variant: the handler records the exception as an ordinary failure
CaughtAsFailed(r, msg) == [r EXCEPT !.status = "failed", !.error = ErrorMsg(msg)]

\* except Exception as e: result['status'] = 'error'; result['error'] = str(e)
Caught(r, msg) == [r EXCEPT !.status = "error", !.error = ErrorMsg(msg)]

\* faulty variant: the failure is recorded without a message
NoPRResultNoMessage(r) == [r EXCEPT !.status = "failed"]

\* if not pr_number: result['status'] = 'failed'; result['error'] = 'Failed to create PR'
NoPRResult(r) == [r EXCEPT !.status = "failed", !.error = ErrorMsg("Failed to create PR")]

\* Step 1: pr_number, pr_url = create_pr.create_pr_for_evaluation(evaluation, config)
CreatePR ==
    /\ pc = "create_pr"
    /\ UNCHANGED faVars
    /\ steps' = Append(steps, "create")
    /\ \/ /\ prs' = prs + 1
          /\ result' = [result EXCEPT !.pr_number = IntValue(prs + 1),
                                      !.pr_url = IntValue(prs + 1)]
          /\ elapsed' = 0
          /\ pc' = "poll"
          /\ UNCHANGED raised
       \/ /\ result' = NoPRResult(result)
          /\ pc' = "eval_return"
          /\ UNCHANGED <<prs, elapsed, raised>>
       \/ /\ raised' = ErrorMsg("create_pr failed")
          /\ result' = Caught(result, "create_pr failed")
          /\ pc' = "eval_return"
          /\ UNCHANGED <<prs, elapsed>>
    /\ UNCHANGED <<args, config, evaluations, run_list, i, results, saves, printed,
                   summary_done, exit_code, uncaught>>

\* faulty variant: the sleep does not count towards the budget
ElapsedAfterSleepStalled(e, p) == e

\* elapsed += poll_interval
ElapsedAfterSleep(e, p) == e + p

\* faulty variant: the budget test off by one: while elapsed <= max_wait
PollLoopConditionInclusive(e, w) == e <= w

\* while elapsed < max_wait
PollLoopCondition(e, w) == e < w

\* while elapsed < max_wait: time.sleep(poll_interval); elapsed += poll_interval
PollSleep ==
    /\ pc = "poll"
    /\ UNCHANGED <<faVars, raised>>
    /\ PollLoopCondition(elapsed, max_wait)
    /\ steps' = Append(steps, "sleep")
    /\ elapsed' = ElapsedAfterSleep(elapsed, poll_interval)
    /\ pc' = "query"
    /\ UNCHANGED <<args, config, evaluations, run_list, i, result, results, prs,
                   saves, printed, summary_done, exit_code, uncaught>>

\* faulty variant: only None counts as no comment
TruthyNotNone(value) == value.k = "str"

\* if comment: (None and '' are false)
Truthy(value) == value.k = "str" /\ Len(value.s) > 0

\* comment = fetch_comment.fetch_latest_agent_comment(repo_url, pr_number),
\* gh producing one of the given responses
PollQueryOn(responses) ==
    /\ pc = "query"
    /\ UNCHANGED faVars
    /\ steps' = Append(steps, "query")
    /\ \E resp \in responses :
         LET comment == fetch_latest_agent_comment(resp) IN
         IF comment.exc # "none"
         THEN /\ raised' = ErrorMsg(comment.exc)
              /\ result' = Caught(result, comment.exc)
              /\ pc' = "eval_return"
         ELSE IF Truthy(comment.val)
         THEN /\ result' = [result EXCEPT !.agent_comment = comment.val]
              /\ pc' = "parse"
              /\ UNCHANGED raised
         ELSE /\ pc' = "poll"
              /\ UNCHANGED <<result, raised>>
    /\ UNCHANGED <<args, config, evaluations, run_list, i, results, elapsed, prs,
                   saves, printed, summary_done, exit_code, uncaught>>

PollQuery == PollQueryOn(PollResponses)

\* responses in which the comment fetch_latest_agent_comment selects has an
\* empty, an absent or a null body
cBotBodyNull == Comment("dict", "dict", "str", sLoginBot, "null", <<>>, "str", <<"1","5">>, 11)
EmptyBodyResponses ==
    {Response(0, "json", "dict", "list", <<cBotEmptyBody>>),
     Response(0, "json", "dict", "list", <<cHuman, cBotEmptyBody>>),
     Response(0, "json", "dict", "list", <<cBotBodyNull>>),
     rBotNoBody}
EmptyBodyQuery == PollQueryOn(EmptyBodyResponses)

\* faulty variant: the timeout forgets the PR that was created
TimeoutResultWithoutPR(r) ==
    [r EXCEPT !.status = "timeout", !.error = ErrorMsg("Agent comment not received"),
              !.pr_number = NoneInt, !.pr_url = NoneInt]

\* faulty variant: the timeout is recorded as an ordinary failure
TimeoutResultAsFailed(r) ==
    [r EXCEPT !.status = "failed", !.error = ErrorMsg("Agent comment not received")]

\* if not agent_comment: result['status'] = 'timeout'; result['error'] = ...
TimeoutResult(r) ==
    [r EXCEPT !.status = "timeout", !.error = ErrorMsg("Agent comment not received")]

\* the loop ends without a comment: status 'timeout'
PollTimeout ==
    /\ pc = "poll"
    /\ UNCHANGED <<faVars, raised>>
    /\ ~PollLoopCondition(elapsed, max_wait)
    /\ result' = TimeoutResult(result)
    /\ pc' = "eval_return"
    /\ UNCHANGED <<args, config, evaluations, run_list, i, results, elapsed, steps,
                   prs, saves, printed, summary_done, exit_code, uncaught>>

\* Step 3: parsed = parse_output.parse_agent_comment(agent_comment); parsed.get(...)
ParseComment ==
    /\ pc = "parse"
    /\ UNCHANGED faVars
    /\ steps' = Append(steps, "parse")
    /\ \/ \E parsed \in ParsedPool :
            IF parsed.k = "none"
            THEN /\ raised' = ErrorMsg("'NoneType' object has no attribute 'get'")
                 /\ result' = Caught(result, "'NoneType' object has no attribute 'get'")
                 /\ pc' = "eval_return"
            ELSE IF parsed.categories.k = "null" \/ parsed.focus_areas.k = "null"
            THEN /\ raised' = ErrorMsg("object of type 'NoneType' has no len()")
                 /\ result' = Caught([result EXCEPT !.parsed_output = parsed],
                                     "object of type 'NoneType' has no len()")
                 /\ pc' = "eval_return"
            ELSE /\ result' = [result EXCEPT !.parsed_output = parsed]
                 /\ pc' = "validate"
                 /\ UNCHANGED raised
       \/ /\ raised' = ErrorMsg("parse_agent_comment failed")
          /\ result' = Caught(result, "parse_agent_comment failed")
          /\ pc' = "eval_return"
    /\ UNCHANGED <<args, config, evaluations, run_list, i, results, elapsed, prs,
                   saves, printed, summary_done, exit_code, uncaught>>

\* faulty variant: every validated evaluation is reported as passed
ValidatedStatusAlwaysPassed(validation) == "passed"

\* if validation['overall_pass']: 'passed' else: 'failed'
ValidatedStatus(validation) == IF validation.overall_pass THEN "passed" ELSE "failed"

\* Step 4: validation = validator.validate_strict(parsed, evaluation); status
Validate ==
    /\ pc = "validate"
    /\ UNCHANGED faVars
    /\ steps' = Append(steps, "validate")
    /\ IF ValidateStrictRaises(result.parsed_output, evaluation)
       THEN /\ raised' = ErrorMsg("unhashable type: 'dict'")
            /\ result' = Caught(result, "unhashable type: 'dict'")
       ELSE /\ LET validation == validate_strict(result.parsed_output, evaluation) IN
               result' = [result EXCEPT !.validation = validation,
                                        !.status = ValidatedStatus(validation)]
            /\ UNCHANGED raised
    /\ pc' = "eval_return"
    /\ UNCHANGED <<args, config, evaluations, run_list, i, results, elapsed, prs,
                   saves, printed, summary_done, exit_code, uncaught>>

\* faulty variant: the file holds the latest result only
CheckpointLatestOnly(rs, by, timestamp) ==
    [results |-> (IF Len(rs) = 0 THEN rs ELSE <<rs[Len(rs)]>>), by |-> by,
     file |-> timestamp]

\* save_results({'results': results, ...}, reports_dir): the file written, named
\* results_<timestamp>.json after the second of the clock in which it is written
Checkpoint(rs, by, timestamp) == [results |-> rs, by |-> by, file |-> timestamp]

\* datetime.now().strftime('%Y%m%d_%H%M%S'): the clock's second, counted from
\* the start of the process. Since the last save it has not gone back; it has
\* moved on if the process slept in between, and otherwise may or may not have
LastSaveTime == IF Len(saves) = 0 THEN 0 ELSE saves[Len(saves)].file
SaveTimes(slept) ==
    IF slept THEN {LastSaveTime + 1} ELSE {LastSaveTime, LastSaveTime + 1}

\* the running evaluation called time.sleep(poll_interval)
Slept == \E k \in 1..Len(steps) : steps[k] = "sleep"

\* faulty variant: a checkpoint after every fifth evaluation only
CheckpointDueEveryFifthOnly(n, t) == n % CheckpointEvery = 0

\* if i % 5 == 0 or i == total
CheckpointDue(n, t) == n % CheckpointEvery = 0 \/ n = t

\* results.append(result); status line; if i % 5 == 0 or i == total: save
EvalReturn ==
    /\ pc = "eval_return"
    /\ UNCHANGED <<faVars, raised>>
    /\ results' = Append(results, result)
    /\ printed' = Append(printed, Line(result.status, i, {}))
    /\ IF CheckpointDue(i, total)
       THEN \E timestamp \in SaveTimes(Slept) :
               saves' = Append(saves, Checkpoint(Append(results, result),
                                                 "run_evaluations", timestamp))
       ELSE saves' = saves
    /\ IF i = total
       THEN pc' = "final_save" /\ i' = i
       ELSE pc' = "eval_begin" /\ i' = i + 1
    /\ UNCHANGED <<args, config, evaluations, run_list, result, elapsed, steps, prs,
                   summary_done, exit_code, uncaught>>

(* ------------------------------------------------------------------ *)
(* runner.py: main, after the batch                                    *)
(* ------------------------------------------------------------------ *)
\* reports_dir = setup_output_directory(); save_results(...)
FinalSave ==
    /\ pc = "final_save"
    /\ UNCHANGED <<faVars, raised>>
    /\ \E timestamp \in SaveTimes(FALSE) :
          saves' = Append(saves, Checkpoint(results, "main", timestamp))
    /\ pc' = "summary"
    /\ UNCHANGED <<args, config, evaluations, run_list, i, result, results, elapsed,
                   steps, prs, printed, summary_done, exit_code, uncaught>>

CountStatus(rs, status) == Cardinality({k \in 1..Len(rs) : rs[k].status = status})

\* print_summary: the block of counts up to "Errors:"
SummaryCounts(rs) ==
    <<Line("Total Evaluations", Len(rs), {}),
      Line("Passed", CountStatus(rs, "passed"), {}),
      Line("Failed", CountStatus(rs, "failed"), {}),
      Line("Timeout", CountStatus(rs, "timeout"), {}),
      Line("Errors", CountStatus(rs, "error"), {})>>

\* print_summary: what is printed for one failed evaluation
FailedLines(r) ==
    LET val == r.validation IN
    <<Line("Failed evaluation", r.evaluation_id, {})>>
    \o (IF "validation" \in ValidationKeys
        THEN (IF ~val.categories.passed
              THEN <<Line("Categories failed", r.evaluation_id, val.categories.missing)>>
              ELSE <<>>)
             \o (IF ~val.focus_areas.passed
                 THEN <<Line("Focus areas missing", r.evaluation_id, val.focus_areas.missing)>>
                 ELSE <<>>)
             \o (IF ~val.suggestions.passed
                 THEN <<Line("Suggestions missing", r.evaluation_id, val.suggestions.missing)>>
                 ELSE <<>>)
             \o (IF ~val.potential_issues.passed
                 THEN <<Line("Issues missing", r.evaluation_id,
                             val.potential_issues.missing)>>
                 ELSE <<>>)
        ELSE <<>>)

RECURSIVE FailedEvaluationLines(_)
FailedEvaluationLines(rs) ==
    IF Len(rs) = 0 THEN <<>>
    ELSE (IF Head(rs).status = "failed" THEN FailedLines(Head(rs)) ELSE <<>>)
         \o FailedEvaluationLines(Tail(rs))

\* print_summary(results)
PrintSummary ==
    /\ pc = "summary"
    /\ UNCHANGED <<faVars, raised>>
    /\ IF \E k \in 1..Len(results) : results[k].validation.k = "none"
       THEN /\ Crash("'NoneType' object has no attribute 'get'")
            /\ UNCHANGED <<printed, summary_done>>
       ELSE IF Len(results) = 0
       THEN /\ printed' = printed \o SummaryCounts(results)
            /\ Crash("division by zero")
            /\ UNCHANGED summary_done
       ELSE /\ printed' = printed \o SummaryCounts(results)
                          \o <<Line("Pass Rate", CountStatus(results, "passed"), {})>>
                          \o FailedEvaluationLines(results)
            /\ summary_done' = TRUE
            /\ pc' = "exit"
            /\ UNCHANGED <<exit_code, uncaught>>
    /\ UNCHANGED <<args, config, evaluations, run_list, i, result, results, elapsed,
                   steps, prs, saves>>

\* faulty variant: the exit test off by one: if failed > 1
ExitStatusMoreThanOne(rs) == IF CountStatus(rs, "failed") > 1 THEN 1 ELSE 0

\* failed = sum(...); if failed > 0: 1 else: 0
ExitStatus(rs) == IF CountStatus(rs, "failed") > 0 THEN 1 ELSE 0

\* main: exit with the appropriate code
Exit ==
    /\ pc = "exit"
    /\ UNCHANGED <<faVars, raised>>
    /\ SysExit(ExitStatus(results))
    /\ UNCHANGED <<args, config, evaluations, run_list, i, result, results, elapsed,
                   steps, prs, saves, printed, summary_done>>

RunnerNext ==
    \/ LoadConfig \/ LoadEvaluations \/ ParseIds \/ RunEvaluationsStart
    \/ EvalBegin \/ CreatePR \/ PollSleep \/ PollQuery \/ PollTimeout
    \/ ParseComment \/ Validate \/ EvalReturn \/ FinalSave \/ PrintSummary \/ Exit

Init == RunnerInit /\ FaIdle
Next == RunnerNext
Spec == Init /\ [][Next]_vars

PollInit == FaInit /\ RunnerIdle
SpecPoll == PollInit /\ [][FaNext]_vars

\* a long batch: every evaluation well-formed, max_wait_seconds = 0 (every
\* poll loop ends at once), and the PR Factory creates every PR
MaxBatch == 11
BatchLists == {[k \in 1..n |-> EvalGood(k)] : n \in 1..MaxBatch}

BatchStartWith(ids) ==
    /\ args = [id |-> ids, dry_run |-> FALSE]
    /\ pc = "run_evaluations"
    /\ config = Config(TRUE, TRUE, IntValue(0), IntValue(5))
    /\ evaluations \in BatchLists
    /\ run_list = <<>>
    /\ i = 0
    /\ result = NoResult
    /\ results = <<>>
    /\ elapsed = 0
    /\ steps = <<>>
    /\ raised = NoError
    /\ prs = 0
    /\ saves = <<>>
    /\ printed = <<>>
    /\ summary_done = FALSE
    /\ exit_code = -1
    /\ uncaught = NoError

BatchStart == BatchStartWith(NoIds)

CreatePRSucceeds == CreatePR /\ prs' = prs + 1

BatchNext ==
    \/ RunEvaluationsStart \/ EvalBegin \/ CreatePRSucceeds \/ PollTimeout
    \/ EvalReturn \/ FinalSave \/ PrintSummary

BatchInit == BatchStart /\ FaIdle
SpecBatch == BatchInit /\ [][BatchNext]_vars

\* a long batch run with or without --evaluation-id: all evaluations, all but
\* the third, or the even ones
BatchIdArgs ==
    {NoIds, IdList(<<1, 2, 4, 5, 6, 7, 8, 9, 10, 11, 12>>), IdList(<<2, 4, 6, 8, 10, 12>>)}
CheckpointStart == \E ids \in BatchIdArgs : BatchStartWith(ids)
CheckpointInit == CheckpointStart /\ FaIdle
SpecCheckpoint == CheckpointInit /\ [][BatchNext]_vars

\* step 4 of one evaluation on its own: the lists the validator is given
MaxItems == 2
sEmpty == <<>>
sBlank == <<" ">>
StringPool == {sSec, sSecVariant, sInputVariant, sEmpty, sBlank}
FieldPool ==
    {Field("list", items) : items \in SeqsUpTo(StringPool, MaxItems)}
    \cup {AbsentField, Field("null", <<>>), Field("dicts", <<>>)}

\* the evaluation and the parsed output: categories and suggestions compare
\* a with e, focus_areas and potential_issues compare e with a
ValidateEvaluation(a, e) ==
    [EvalGood(1) EXCEPT !.categories = e,
                        !.expected_review = [focus_areas |-> a, suggestions |-> e,
                                             potential_issues |-> a]]
ValidateParsed(a, e) == Parsed(a, e, a, e)

\* run_single_evaluation about to validate parsed against the evaluation
ValidateStartWith(e, parsed) ==
    /\ args = [id |-> NoIds, dry_run |-> FALSE]
    /\ pc = "validate"
    /\ config = Config(TRUE, TRUE, IntValue(10), NoneInt)
    /\ evaluations = <<e>>
    /\ result = [PendingResult(e) EXCEPT
                    !.pr_number = IntValue(1), !.pr_url = IntValue(1),
                    !.agent_comment = StrValue(sBodyPlain),
                    !.parsed_output = parsed]
    /\ run_list = evaluations
    /\ i = 1
    /\ results = <<>>
    /\ elapsed = 5
    /\ steps = <<"create", "sleep", "query", "parse">>
    /\ raised = NoError
    /\ prs = 1
    /\ saves = <<>>
    /\ printed = <<Line("progress", 1, {})>>
    /\ summary_done = FALSE
    /\ exit_code = -1
    /\ uncaught = NoError

ValidateStart ==
    \E a \in FieldPool : \E e \in FieldPool :
        ValidateStartWith(ValidateEvaluation(a, e), ValidateParsed(a, e))

ValidateInit == ValidateStart /\ FaIdle
SpecValidate == ValidateInit /\ [][Validate]_vars

\* step 4 with the four dimensions given independent lists: an actual list
\* that equals, exceeds or lacks the expected one, and fields that are absent
StrictActualPool ==
    {Field("list", <<sSec>>), Field("list", <<sSecVariant, sInputVariant>>), AbsentField}
StrictExpectedPool ==
    {Field("list", <<sSec>>), Field("list", <<sInputVariant>>), AbsentField}

StrictEvaluation(categories, focus_areas, suggestions, potential_issues) ==
    [EvalGood(1) EXCEPT !.categories = categories,
                        !.expected_review = [focus_areas |-> focus_areas,
                                             suggestions |-> suggestions,
                                             potential_issues |-> potential_issues]]

StrictStart ==
    \E ac \in StrictActualPool : \E af \in StrictActualPool :
    \E as \in StrictActualPool : \E ap \in StrictActualPool :
    \E ec \in StrictExpectedPool : \E ef \in StrictExpectedPool :
    \E es \in StrictExpectedPool : \E ep \in StrictExpectedPool :
        ValidateStartWith(StrictEvaluation(ec, ef, es, ep), Parsed(ac, af, as, ap))

StrictInit == StrictStart /\ FaIdle
SpecStrict == StrictInit /\ [][Validate]_vars

\* the polling loop of one evaluation whose PR has just been created, for
\* every budget and cadence within the bounds
PollLoopStart ==
    /\ args = [id |-> NoIds, dry_run |-> FALSE]
    /\ pc = "poll"
    /\ \E w \in -1..MaxWait : \E p \in 1..MaxInterval :
          config = Config(TRUE, TRUE, IntValue(w), IntValue(p))
    /\ evaluations = <<EvalGood(1)>>
    /\ result = [PendingResult(EvalGood(1)) EXCEPT
                    !.pr_number = IntValue(1), !.pr_url = IntValue(1)]
    /\ run_list = evaluations
    /\ i = 1
    /\ results = <<>>
    /\ elapsed = 0
    /\ steps = <<"create">>
    /\ raised = NoError
    /\ prs = 1
    /\ saves = <<>>
    /\ printed = <<Line("progress", 1, {})>>
    /\ summary_done = FALSE
    /\ exit_code = -1
    /\ uncaught = NoError

PollLoopInit == PollLoopStart /\ FaIdle
PollLoopNext == PollSleep \/ PollQuery \/ PollTimeout
SpecPollLoop == PollLoopInit /\ [][PollLoopNext]_vars

\* the three loops, each from its own start and scheduled fairly (the
\* program is one thread: a step that can be taken is taken): the blocking
\* fetch, the polling loop of one evaluation, and run_evaluations called with
\* a loaded configuration on files of up to two evaluations
BatchCallStart ==
    /\ args = [id |-> NoIds, dry_run |-> FALSE]
    /\ pc = "run_evaluations"
    /\ config = Config(TRUE, TRUE, IntValue(10), NoneInt)
    /\ evaluations \in {list \in EvaluationLists : Len(list) <= 2}
    /\ run_list = <<>>
    /\ i = 0
    /\ result = NoResult
    /\ results = <<>>
    /\ elapsed = 0
    /\ steps = <<>>
    /\ raised = NoError
    /\ prs = 0
    /\ saves = <<>>
    /\ printed = <<>>
    /\ summary_done = FALSE
    /\ exit_code = -1
    /\ uncaught = NoError

\* fetch_agent_comment called with no budget, the least one, or the largest,
\* polled at the shortest, a middling or the longest cadence
FetchCallStart ==
    /\ fa_pc = "loop"
    /\ fa_max_wait \in {-1, 0, 1, MaxWait}
    /\ fa_poll_interval \in {1, 3, MaxInterval}
    /\ fa_elapsed = 0
    /\ fa_queries = 0
    /\ fa_sleeps = 0
    /\ fa_last = rEmptyOutput
    /\ fa_accepting = 0
    /\ fa_ret = NoneValue
    /\ fa_exc = "none"

TerminateInit ==
    \/ FetchCallStart /\ RunnerIdle
    \/ PollLoopInit
    \/ BatchCallStart /\ FaIdle

\* every step but the validation
StepsButValidate ==
    \/ FaNext
    \/ RunEvaluationsStart \/ EvalBegin \/ CreatePR \/ PollSleep \/ PollQuery
    \/ PollTimeout \/ ParseComment \/ EvalReturn \/ FinalSave \/ PrintSummary \/ Exit
TerminateNext == StepsButValidate \/ Validate

\* weak fairness of Validate, which is enabled exactly when pc = "validate"
\* and whose every step leaves that position
ValidateFair == []<>(pc # "validate")
SpecTerminate ==
    TerminateInit /\ [][TerminateNext]_vars /\ WF_vars(StepsButValidate) /\ ValidateFair

\* the polling loop when every query selects a comment without a body
EmptyBodyNext == PollSleep \/ EmptyBodyQuery \/ PollTimeout
SpecEmptyBody == PollLoopInit /\ [][EmptyBodyNext]_vars

LatestInit == FlInit /\ RunnerIdle
ClassifyInit == ClassifyStart /\ RunnerIdle
CompareInit == CompareStart /\ RunnerIdle
CompareNext == CompareFirst \/ CompareLatest
SpecCompare == CompareInit /\ [][CompareNext]_vars
SpecClassify == ClassifyInit /\ [][Classify]_vars
SpecLatest == LatestInit /\ [][FlCall]_vars

(* ------------------------------------------------------------------ *)
(* Properties                                                          *)
(* ------------------------------------------------------------------ *)
\* run_evaluations has returned and main has saved the final results
BatchReturned == \E k \in 1..Len(saves) : saves[k].by = "main"

\* the result run_single_evaluation hands back for the evaluation that raised
RaisedResult == IF pc = "eval_return" THEN result ELSE results[Len(results)]

(* C1: an exception raised inside the try block of run_single_evaluation   *)
(* (PR creation, polling, parsing, validation) is caught there: the result *)
(* handed to run_evaluations has status error and the exception's message  *)
(* as its error, and no exception has left the call (the process has       *)
(* neither crashed nor exited).                                            *)
C1_ExceptionCaught ==
    (raised.k = "str" /\ pc \in {"eval_return", "eval_begin", "final_save", "summary"}) =>
        /\ RaisedResult.status = "error"
        /\ RaisedResult.error = raised
        /\ uncaught = NoError
        /\ exit_code = -1

\* witness of C1: the parser raised, and the batch went on to the next evaluation
C1_Witness ==
    /\ pc = "eval_begin"
    /\ raised = ErrorMsg("parse_agent_comment failed")
    /\ Len(results) >= 1
    /\ results[Len(results)].status = "error"
    /\ results[Len(results)].error = ErrorMsg("parse_agent_comment failed")

(* C2: whatever makes one evaluation fail, run_evaluations returns exactly *)
(* one result per evaluation of the filtered list: the process never ends  *)
(* with fewer results than evaluations to run.                             *)
C2_OneResultPerEvaluation ==
    pc = "exited" => Len(results) = Len(run_list)

(* C3: a complete run with no failed result and at least one timeout or    *)
(* error result exits with status 0.                                       *)
C3_TimeoutErrorExitZero ==
    (/\ pc = "exited"
     /\ BatchReturned
     /\ CountStatus(results, "failed") = 0
     /\ CountStatus(results, "timeout") + CountStatus(results, "error") > 0)
        => exit_code = 0

(* C4: a complete run with at least one failed result (PR creation failed, *)
(* or validation failed) exits with status 1.                              *)
C4_FailedExitsOne ==
    (pc = "exited" /\ BatchReturned /\ CountStatus(results, "failed") > 0)
        => exit_code = 1

\* witness of C4: the summary was printed for a run whose validation failed, exit 1
C4_Witness ==
    /\ pc = "exited"
    /\ BatchReturned
    /\ summary_done
    /\ uncaught = NoError
    /\ exit_code = 1
    /\ \E k \in 1..Len(results) :
          results[k].status = "failed" /\ results[k].validation.k = "dict"

(* C5: a complete run in which every executed evaluation passed exits with *)
(* status 0, for every number of executed evaluations, none included.      *)
C5_AllPassedExitZero ==
    (/\ pc = "exited"
     /\ BatchReturned
     /\ \A k \in 1..Len(results) : results[k].status = "passed")
        => exit_code = 0

(* C6: after the batch has run, print_summary runs to completion before    *)
(* the process exits, for every result list.                               *)
C6_SummaryPrinted ==
    (pc = "exited" /\ BatchReturned) => summary_done

\* the lines of the summary that report a failed result's missing items
MissingLines(r) ==
    {Line("Categories failed", r.evaluation_id, r.validation.categories.missing) :
        x \in {y \in {1} : ~r.validation.categories.passed}}
    \cup {Line("Focus areas missing", r.evaluation_id, r.validation.focus_areas.missing) :
        x \in {y \in {1} : ~r.validation.focus_areas.passed}}
    \cup {Line("Suggestions missing", r.evaluation_id, r.validation.suggestions.missing) :
        x \in {y \in {1} : ~r.validation.suggestions.passed}}
    \cup {Line("Issues missing", r.evaluation_id, r.validation.potential_issues.missing) :
        x \in {y \in {1} : ~r.validation.potential_issues.passed}}

(* C7: once the summary is printed, it holds, for every failed result with *)
(* a validation record and each dimension that did not pass, the line with *)
(* that dimension's normalized missing items.                              *)
C7_MissingItemsPrinted ==
    summary_done =>
        \A k \in 1..Len(results) :
            (results[k].status = "failed" /\ results[k].validation.k = "dict") =>
                \A l \in MissingLines(results[k]) :
                    \E n \in 1..Len(printed) : printed[n] = l

\* ceil(max_wait / poll_interval), 0 for max_wait <= 0
ExpectedQueries ==
    IF fa_max_wait <= 0 THEN 0
    ELSE (fa_max_wait + fa_poll_interval - 1) \div fa_poll_interval

(* C8: the blocking poller never issues more than ceil(max_wait /          *)
(* poll_interval) queries, and when it times out it has issued exactly     *)
(* that many, has slept after each, and returns None without raising.      *)
C8_PollCount ==
    /\ fa_queries <= ExpectedQueries
    /\ fa_sleeps <= fa_queries
    /\ fa_pc = "timeout" =>
          /\ fa_queries = ExpectedQueries
          /\ fa_sleeps = fa_queries
          /\ fa_ret = NoneValue
          /\ fa_exc = "none"

\* witness of C8: max_wait = 10, poll_interval = 5, timed out after 2 queries
C8_Witness ==
    /\ fa_pc = "timeout"
    /\ fa_max_wait = 10
    /\ fa_poll_interval = 5
    /\ fa_queries = 2
    /\ fa_sleeps = 2

(* C9: whatever the comment-listing query returns, the blocking poller     *)
(* never raises: it takes the response as "no comment yet".                *)
C9_NeverRaises == fa_pc # "raised"

\* the classifier accepts the comment
Accepted(comment) ==
    is_agent_comment(comment).exc = "none" /\ is_agent_comment(comment).val

FirstAccepted(items) ==
    CHOOSE k \in 1..Len(items) :
        Accepted(items[k]) /\ \A j \in 1..(k - 1) : ~Accepted(items[j])

(* C10: fetch_agent_comment returns the body of the first comment in list  *)
(* order the classifier accepts, from the first query whose list holds an  *)
(* accepted comment, and issues no query after it.                         *)
C10_FirstMatch ==
    /\ fa_accepting <= 1
    /\ fa_accepting = 1 => fa_pc \in {"done", "raised"} /\ HasAccepted(fa_last)
    /\ fa_pc = "done" =>
          /\ fa_accepting = 1
          /\ fa_ret = CommentBody(fa_last.items[FirstAccepted(fa_last.items)])

\* witness of C10: at a later query the first accepted comment is returned,
\* though a later comment of the list is accepted too and is more recent
C10_Witness ==
    /\ fa_pc = "done"
    /\ fa_queries = 2
    /\ fa_last.items = <<cBot, cSignature>>
    /\ fa_ret = StrValue(sBodyPlain)

\* the positions of the comments of a list the classifier accepts
AcceptedIndexes(items) == {k \in 1..Len(items) : Accepted(items[k])}

(* C11: fetch_latest_agent_comment issues exactly one query, never sleeps  *)
(* and returns: the body of an accepted comment whose createdAt is the     *)
(* lexicographically greatest among the accepted comments of the list, and *)
(* None if and only if no comment of the list is accepted.                 *)
C11_LatestAccepted ==
    fa_pc \in {"done", "raised"} =>
        /\ fa_pc = "done"
        /\ fa_queries = 1
        /\ fa_sleeps = 0
        /\ (fa_ret = NoneValue) <=> (AcceptedIndexes(fa_last.items) = {})
        /\ AcceptedIndexes(fa_last.items) # {} =>
              \E k \in AcceptedIndexes(fa_last.items) :
                 /\ fa_ret = CommentBody(fa_last.items[k])
                 /\ \A j \in AcceptedIndexes(fa_last.items) :
                       ~StrLess(CreatedAtKey(fa_last.items[k]).s,
                                CreatedAtKey(fa_last.items[j]).s)

\* the step in which create_pr_for_evaluation returns without a PR number:
\* no PR is counted and nothing is raised
NoPRReturned == pc = "create_pr" /\ prs' = prs /\ raised' = raised

(* C12: when the PR Factory returns no PR number, run_single_evaluation    *)
(* returns at once with status failed and a non-empty error: creation is   *)
(* the evaluation's only step (no sleep, query, parse or validation), and  *)
(* pr_number, agent_comment, parsed_output and validation are null; the    *)
(* result is then appended as it is, with no further step.                 *)
C12_NoPRStops ==
    [][/\ NoPRReturned =>
           /\ pc' = "eval_return"
           /\ steps' = <<"create">>
           /\ result'.status = "failed"
           /\ result'.error.k = "str" /\ result'.error.msg # ""
           /\ result'.pr_number = NoneInt
           /\ result'.agent_comment = NoneValue
           /\ result'.parsed_output = NoneDict
           /\ result'.validation = NoneDict
       /\ pc = "eval_return" =>
           /\ results' = Append(results, result)
           /\ steps' = steps
           /\ prs' = prs]_vars

\* witness of C12: the second evaluation's PR was not created, and the batch
\* has gone on after recording it
C12_Witness ==
    /\ pc = "eval_begin"
    /\ i = 3
    /\ steps = <<"create">>
    /\ raised = NoError
    /\ results[2].status = "failed"
    /\ results[2].error = ErrorMsg("Failed to create PR")
    /\ results[2].pr_number = NoneInt

\* the polling budget is used up and no query has returned a comment
BudgetExhausted == pc = "poll" /\ ~(elapsed < max_wait)

\* the steps the evaluation has taken include the parser or the validator
ParsedOrValidated ==
    \E k \in 1..Len(steps) : steps[k] \in {"parse", "validate"}

(* C13: when the polling budget is exhausted and no query has returned a   *)
(* comment, run_single_evaluation returns with status timeout, without     *)
(* having called the parser or the validator; the result is appended and   *)
(* the batch goes on with the next evaluation, if there is one.            *)
C13_TimeoutStops ==
    [][/\ BudgetExhausted =>
           /\ result.agent_comment = NoneValue
           /\ pc' = "eval_return"
           /\ result'.status = "timeout"
           /\ result'.parsed_output = NoneDict
           /\ result'.validation = NoneDict
           /\ steps' = steps
           /\ ~ParsedOrValidated
       /\ (pc = "eval_return" /\ result.status = "timeout") =>
           /\ results' = Append(results, result)
           /\ steps' = steps
           /\ exit_code' = -1
           /\ IF i < total
              THEN pc' = "eval_begin" /\ i' = i + 1
              ELSE pc' = "final_save"]_vars

\* witness of C13: two polls of 5 s used up the budget of 10 s, the first
\* evaluation timed out and the second is about to start
C13_Witness ==
    /\ pc = "eval_begin"
    /\ i = 2
    /\ steps = <<"create", "sleep", "query", "sleep", "query">>
    /\ results[1].status = "timeout"
    /\ results[1].agent_comment = NoneValue

\* the results run_single_evaluation has returned so far
ReturnedResults ==
    {results[k] : k \in 1..Len(results)} \cup (IF pc = "eval_return" THEN {result} ELSE {})

(* C14: a result whose validation was computed (validate_strict returned,  *)
(* no exception) has status passed if the validation's overall_pass is     *)
(* true and status failed otherwise.                                       *)
C14_StatusFollowsValidation ==
    \A r \in ReturnedResults :
        r.validation.k = "dict" =>
            /\ r.validation.overall_pass => r.status = "passed"
            /\ ~r.validation.overall_pass => r.status = "failed"
            /\ r.error = NoError

\* witness of C14: one validated evaluation passed and another one failed
C14_Witness ==
    /\ \E k \in 1..Len(results) :
          /\ results[k].validation.k = "dict"
          /\ results[k].validation.overall_pass
          /\ results[k].status = "passed"
    /\ \E k \in 1..Len(results) :
          /\ results[k].validation.k = "dict"
          /\ ~results[k].validation.overall_pass
          /\ results[k].status = "failed"

TerminalStatuses == {"passed", "failed", "timeout", "error"}

\* a step of run_single_evaluation: PR creation, sleep, query, parse, validation
EvaluationStep == steps' # steps /\ pc # "eval_begin"

(* C15: evaluations run one at a time in the order of the filtered list:   *)
(* results[k] is the result of the k-th evaluation and has a terminal      *)
(* status; while evaluation i runs, exactly the i-1 evaluations before it  *)
(* have their results appended; and every step of an evaluation (its PR    *)
(* creation, each sleep, each query) is a step of evaluation i that leaves *)
(* the results and the position in the list as they are.                   *)
C15_Sequential ==
    /\ [](/\ Len(results) <= Len(run_list)
          /\ \A k \in 1..Len(results) :
                /\ results[k].evaluation_id = run_list[k].id
                /\ results[k].status \in TerminalStatuses
          /\ pc \in {"eval_begin", "create_pr", "poll", "query", "parse", "validate",
                     "eval_return"} => Len(results) = i - 1
          /\ pc \in {"create_pr", "poll", "query", "parse", "validate", "eval_return"}
                => result.evaluation_id = run_list[i].id)
    /\ [][EvaluationStep =>
              /\ i' = i
              /\ results' = results
              /\ Len(results) = i - 1
              /\ result'.evaluation_id = run_list[i].id]_vars

\* witness of C15: of three evaluations the first and the third were selected
\* and ran in that order, the second of them after the first one's sleeps
C15_Witness ==
    /\ pc = "final_save"
    /\ Len(evaluations) = 3
    /\ Len(results) = 2
    /\ results[1].evaluation_id = 1
    /\ results[1].status = "timeout"
    /\ results[2].evaluation_id = 3
    /\ \E k \in 1..Len(steps) : steps[k] = "sleep"

\* the number of evaluations after which run_evaluations writes a checkpoint
LoopSaves(n) == n \div CheckpointEvery + (IF n % CheckpointEvery = 0 THEN 0 ELSE 1)

(* C16 as stated: a full run over n >= 1 evaluations writes floor(n/5) + 1 *)
(* checkpoints in total.                                                   *)
C16_CheckpointCountAsStated ==
    (BatchReturned /\ total >= 1) => Len(saves) = total \div CheckpointEvery + 1

(* C16 as amended: during a run over n >= 1 evaluations a checkpoint is    *)
(* written after the 5th, 10th, ... completed evaluation and after the     *)
(* last one if n is not a multiple of 5, and exactly one further           *)
(* checkpoint is written at the end of the batch: floor(n/5) + 1 writes if *)
(* 5 divides n, floor(n/5) + 2 otherwise.                                  *)
C16_CheckpointCount ==
    /\ (/\ pc \in {"eval_begin", "create_pr", "poll", "query", "parse", "validate",
                    "eval_return"}
        /\ total >= 1) =>
          /\ Len(saves) = Len(results) \div CheckpointEvery
          /\ \A k \in 1..Len(saves) :
                /\ saves[k].by = "run_evaluations"
                /\ Len(saves[k].results) = CheckpointEvery * k
    /\ (BatchReturned /\ total >= 1) =>
          /\ Len(saves) = LoopSaves(total) + 1
          /\ saves[Len(saves)].by = "main"
          /\ saves[Len(saves)].results = results
          /\ \A k \in 1..LoopSaves(total) :
                /\ saves[k].by = "run_evaluations"
                /\ Len(saves[k].results) =
                      IF k <= total \div CheckpointEvery THEN CheckpointEvery * k ELSE total

\* witness of C16: a run over 7 evaluations wrote checkpoints after the 5th
\* and the 7th evaluation and one more at the end
C16_Witness ==
    /\ BatchReturned
    /\ total = 7
    /\ Len(saves) = 3
    /\ Len(saves[1].results) = 5
    /\ Len(saves[2].results) = 7
    /\ saves[3].by = "main"

(* C17: every save of a process writes a file whose name no earlier save   *)
(* of the process has used, however little time lies between the two: no   *)
(* checkpoint file is written a second time.                               *)
C17_FreshFileNames ==
    \A j \in 1..Len(saves) : \A k \in 1..Len(saves) :
        j < k => saves[j].file # saves[k].file

\* the configuration or the evaluations file was missing or could not be parsed
ConfigErrorLogged ==
    \E k \in 1..Len(printed) :
        printed[k].line \in {"FileNotFoundError", "YAMLError", "JSONDecodeError"}

\* the configuration file was read and held no mapping (it was empty)
ConfigEmpty == config.k = "none" /\ pc \notin {"load_config", "load_evaluations"}

(* C18: when the configuration file or the evaluations file is missing or  *)
(* cannot be parsed (or the configuration holds no mapping), the process   *)
(* exits with status 1 and nothing has run: no PR created, no query, no    *)
(* sleep, no result, no checkpoint.                                        *)
C18_ConfigErrorAborts ==
    (ConfigErrorLogged \/ ConfigEmpty) =>
        /\ pc = "exited"
        /\ exit_code = 1
        /\ prs = 0
        /\ steps = <<>>
        /\ results = <<>>
        /\ saves = <<>>

\* witness of C18: the configuration was read, the evaluations file was not
\* valid JSON
C18_Witness ==
    /\ pc = "exited"
    /\ config.k = "dict"
    /\ printed = <<Line("JSONDecodeError", 0, {})>>
    /\ exit_code = 1

\* a dry run whose files were loaded and whose --id, if given, is a list of
\* numbers, has ended
DryRunEnded ==
    /\ args.dry_run
    /\ args.id.k # "invalid"
    /\ pc = "exited"
    /\ ~ConfigErrorLogged
    /\ ~ConfigEmpty

(* C19: a dry run whose configuration and evaluations were loaded prints   *)
(* every selected evaluation and exits with status 0, and nothing has      *)
(* run: no PR created, no query, no sleep, no result, no checkpoint.       *)
C19_DryRunExitsZero ==
    DryRunEnded =>
        /\ exit_code = 0
        /\ printed = DryRunLines(Len(DryRunSelected))
        /\ prs = 0
        /\ steps = <<>>
        /\ results = <<>>
        /\ saves = <<>>

\* normalization as specified: lower-case, collapse whitespace runs, trim
Normalized(text) == strip(CollapseSpaces(lower(text)))

\* the normalized set of a field: of its non-empty items, if it is a list
NormalizedSet(field) ==
    IF field.k = "list"
    THEN {Normalized(field.items[m]) :
             m \in {j \in 1..Len(field.items) : field.items[j] # <<>>}}
    ELSE {}

\* what the claim says of one result r of the exact policy on actual and expected
ExactPolicy(r, actual, expected) ==
    /\ r.passed <=> (NormalizedSet(actual) = NormalizedSet(expected))
    /\ r.missing = {x \in NormalizedSet(expected) : x \notin NormalizedSet(actual)}
    /\ r.extra = {x \in NormalizedSet(actual) : x \notin NormalizedSet(expected)}
    /\ (actual = expected /\ actual.k = "list" /\ Len(actual.items) > 0) =>
          /\ r.passed
          /\ r.match_percentage.n = r.match_percentage.d
          /\ r.match_percentage.d > 0

(* C20: the exact policy (validate_categories, validate_focus_areas)       *)
(* passes if and only if the normalized actual set equals the normalized   *)
(* expected set; missing is expected minus actual and extra is actual      *)
(* minus expected; and a nonempty list compared with itself passes with    *)
(* match_percentage 100.                                                   *)
C20_ExactPolicy ==
    (pc = "eval_return" /\ result.validation.k = "dict") =>
        /\ ExactPolicy(result.validation.categories,
                       result.parsed_output.categories, run_list[1].categories)
        /\ ExactPolicy(result.validation.focus_areas,
                       result.parsed_output.focus_areas,
                       run_list[1].expected_review.focus_areas)

\* witness of C20: the same two categories in another order, case and spacing
\* pass with 100, and the focus areas are a nonempty list compared with itself
C20_Witness ==
    /\ pc = "eval_return"
    /\ result.parsed_output.categories = Field("list", <<sSecVariant, sInputVariant>>)
    /\ run_list[1].categories = Field("list", <<sSecVariant, sInputVariant>>)
    /\ result.validation.categories.passed
    /\ result.validation.categories.actual = {sSec, sInput}
    /\ result.validation.categories.match_percentage = Pct(2, 2)

\* the validated result of the evaluation of SpecValidate, and what was compared
Validated == pc = "eval_return" /\ result.validation.k = "dict"
ActualOf(dimension) ==
    CASE dimension = "categories" -> result.parsed_output.categories
      [] dimension = "focus_areas" -> result.parsed_output.focus_areas
      [] dimension = "suggestions" -> result.parsed_output.suggestions
      [] dimension = "potential_issues" -> result.parsed_output.potential_issues
ExpectedOf(dimension) ==
    CASE dimension = "categories" -> run_list[1].categories
      [] dimension = "focus_areas" -> run_list[1].expected_review.focus_areas
      [] dimension = "suggestions" -> run_list[1].expected_review.suggestions
      [] dimension = "potential_issues" -> run_list[1].expected_review.potential_issues
ResultOf(dimension) ==
    CASE dimension = "categories" -> result.validation.categories
      [] dimension = "focus_areas" -> result.validation.focus_areas
      [] dimension = "suggestions" -> result.validation.suggestions
      [] dimension = "potential_issues" -> result.validation.potential_issues

ExactDimensions == {"categories", "focus_areas"}
SubsetDimensions == {"suggestions", "potential_issues"}

(* C21: in an exact-match dimension a nonempty normalized actual set       *)
(* compared with an empty normalized expected set fails, although missing  *)
(* is empty.                                                               *)
C21_ExtraAloneFails ==
    Validated =>
        \A dimension \in ExactDimensions :
            (/\ NormalizedSet(ActualOf(dimension)) # {}
             /\ NormalizedSet(ExpectedOf(dimension)) = {}) =>
                /\ ~ResultOf(dimension).passed
                /\ ResultOf(dimension).missing = {}

\* witness of C21: categories ["sec"] against [] fail with nothing missing
C21_Witness ==
    /\ Validated
    /\ result.parsed_output.categories = Field("list", <<sSec>>)
    /\ run_list[1].categories = Field("list", <<>>)
    /\ ~result.validation.categories.passed
    /\ result.validation.categories.missing = {}
    /\ result.validation.categories.extra = {sSec}

\* what the claim says of one result r of the subset policy on actual and expected
SubsetPolicy(r, actual, expected) ==
    /\ r.passed <=> ({x \in NormalizedSet(expected) : x \notin NormalizedSet(actual)} = {})
    /\ r.found = {x \in NormalizedSet(expected) : x \in NormalizedSet(actual)}
    /\ r.missing = {x \in NormalizedSet(expected) : x \notin NormalizedSet(actual)}
    /\ NormalizedSet(expected) = {} =>
          /\ r.passed
          /\ r.match_percentage.n = r.match_percentage.d
          /\ r.match_percentage.d > 0

(* C22: the subset policy (validate_suggestions, validate_potential_issues)*)
(* passes if and only if no expected item is missing from actual, with     *)
(* found the expected items present and missing the expected items absent; *)
(* extra actual items never make it fail; and against an empty expected    *)
(* set it passes with match_percentage 100 for every actual.               *)
C22_SubsetPolicy ==
    Validated =>
        \A dimension \in SubsetDimensions :
            SubsetPolicy(ResultOf(dimension), ActualOf(dimension), ExpectedOf(dimension))

\* witness of C22: the expected suggestion and one more: passes with 100
C22_Witness ==
    /\ Validated
    /\ result.parsed_output.suggestions = Field("list", <<sSec, sInputVariant>>)
    /\ run_list[1].expected_review.suggestions = Field("list", <<sSec>>)
    /\ result.validation.suggestions.passed
    /\ result.validation.suggestions.found = {sSec}
    /\ result.validation.suggestions.match_percentage = Pct(1, 1)

\* the items of the normalized expected set that the normalized actual set holds
Matched(dimension) ==
    {x \in NormalizedSet(ExpectedOf(dimension)) : x \in NormalizedSet(ActualOf(dimension))}

(* C23: in each of the four dimensions match_percentage lies in [0, 100];  *)
(* it is the number of normalized expected items that actual holds (the    *)
(* intersection, which is found) divided by the number of normalized       *)
(* expected items, times 100, and it is 100 when the normalized expected   *)
(* set is empty.                                                           *)
C23_MatchPercentage ==
    Validated =>
        \A dimension \in ExactDimensions \cup SubsetDimensions :
            LET p == ResultOf(dimension).match_percentage
                expected_set == NormalizedSet(ExpectedOf(dimension))
            IN /\ p.d > 0
               /\ 0 <= p.n
               /\ p.n <= p.d
               /\ expected_set # {} =>
                     /\ p.n = Cardinality(Matched(dimension))
                     /\ p.d = Cardinality(expected_set)
               /\ expected_set = {} => p.n = p.d

\* witness of C23: one of two expected categories and suggestions matched (50),
\* and the one expected focus area matched among two actual ones (100)
C23_Witness ==
    /\ Validated
    /\ result.parsed_output.categories = Field("list", <<sSecVariant>>)
    /\ run_list[1].categories = Field("list", <<sInputVariant, sSec>>)
    /\ result.validation.categories.match_percentage = Pct(1, 2)
    /\ result.validation.suggestions.match_percentage = Pct(1, 2)
    /\ result.validation.focus_areas.match_percentage = Pct(1, 1)

Dimensions == ExactDimensions \cup SubsetDimensions
FailedDimensions == {dimension \in Dimensions : ~ResultOf(dimension).passed}
FullScore(dimension) ==
    ResultOf(dimension).match_percentage.n = ResultOf(dimension).match_percentage.d

\* C24: overall_pass of a validation is true exactly when the passed flag of
\* each of the four dimension results is true; with exactly one dimension
\* failed it is false, whatever the other three score
C24_OverallPass ==
    Validated =>
        /\ result.validation.overall_pass <=> FailedDimensions = {}
        /\ Cardinality(FailedDimensions) = 1 => ~result.validation.overall_pass

\* witness of C24: categories alone fail (an extra category) while all four
\* dimensions score 100, and overall_pass is false
C24_Witness ==
    /\ Validated
    /\ FailedDimensions = {"categories"}
    /\ \A dimension \in Dimensions : FullScore(dimension)
    /\ ~result.validation.overall_pass

\* C25: overall_score is the sum of the four match percentages divided by
\* four, and lies between 0 and 100
C25_OverallScore ==
    Validated =>
        LET s == result.validation.overall_score
            c == result.validation.categories.match_percentage
            f == result.validation.focus_areas.match_percentage
            g == result.validation.suggestions.match_percentage
            p == result.validation.potential_issues.match_percentage
        IN /\ s.d > 0
           /\ 0 <= s.n /\ s.n <= s.d
           /\ 4 * s.n * c.d * f.d * g.d * p.d
                = s.d * (c.n * f.d * g.d * p.d + f.n * c.d * g.d * p.d
                         + g.n * c.d * f.d * p.d + p.n * c.d * f.d * g.d)

\* witness of C25: potential issues score 0, the other three 100, the mean is 75
C25_Witness ==
    /\ Validated
    /\ result.validation.potential_issues.match_percentage.n = 0
    /\ \A dimension \in Dimensions \ {"potential_issues"} : FullScore(dimension)
    /\ 4 * result.validation.overall_score.n = 3 * result.validation.overall_score.d

\* the rewritings of an item that normalization is to undo
UpperChar(c) ==
    IF \E j \in 1..Len(LowerChars) : LowerChars[j] = c
    THEN UpperChars[CHOOSE j \in 1..Len(LowerChars) : LowerChars[j] = c]
    ELSE c
upper(s) == [j \in 1..Len(s) |-> UpperChar(s[j])]
Padded(s) == <<" ">> \o s \o <<" ">>
RECURSIVE Lengthened(_)
Lengthened(s) ==
    IF Len(s) = 0 THEN <<>>
    ELSE IF IsSpace(Head(s)) THEN <<Head(s), " ">> \o Lengthened(Tail(s))
    ELSE <<Head(s)>> \o Lengthened(Tail(s))

\* the rewritings of a list: of each item, and of the list itself
EachItem(T(_), field) ==
    IF field.k = "list"
    THEN Field("list", [j \in 1..Len(field.items) |-> T(field.items[j])])
    ELSE field
Duplicated(field) ==
    IF field.k = "list" THEN Field("list", field.items \o field.items) ELSE field
Reordered(field) ==
    IF field.k = "list"
    THEN Field("list", [j \in 1..Len(field.items) |-> field.items[Len(field.items) + 1 - j]])
    ELSE field
Rewritings(field) ==
    {EachItem(upper, field), EachItem(lower, field), EachItem(Padded, field),
     EachItem(Lengthened, field), Duplicated(field), Reordered(field)}

\* the validator of a dimension
ValidatorOf(dimension, actual, expected) ==
    IF dimension \in ExactDimensions
    THEN validate_exact(actual, expected)
    ELSE validate_subset(actual, expected)

\* expected ["sec", "perf"] against actual ["Sec", " perf "]
NormalizationExample ==
    LET r == validate_exact(Field("list", <<<<"S","e","c">>, <<" ","p","e","r","f"," ">>>>),
                            Field("list", <<sSec, sPerf>>))
    IN r.passed /\ r.match_percentage.n = r.match_percentage.d

\* C26: the result of each dimension is the same when the items of the actual
\* or of the expected list are put in another letter case, padded with
\* whitespace, given longer whitespace runs, duplicated or reordered; the
\* example of the specification passes with 100; and normalizing a normalized
\* item changes nothing
C26_NormalizationInvariant ==
    /\ NormalizationExample
    /\ Validated =>
         \A dimension \in Dimensions :
            /\ \A actual \in Rewritings(ActualOf(dimension)) :
                  ValidatorOf(dimension, actual, ExpectedOf(dimension)) = ResultOf(dimension)
            /\ \A expected \in Rewritings(ExpectedOf(dimension)) :
                  ValidatorOf(dimension, ActualOf(dimension), expected) = ResultOf(dimension)
            /\ \A item \in ResultOf(dimension).actual \cup ResultOf(dimension).expected :
                  normalize_text(item) = item

\* the comment is_agent_comment was called with
Classified == fa_last.items[1]

\* the login and the body as strings: the empty string when absent
LoginText(comment) ==
    IF comment.author = "dict" /\ comment.login = "str" THEN comment.loginv ELSE <<>>
BodyText(comment) == IF comment.body = "str" THEN comment.bodyv ELSE <<>>

\* author, login and body are each absent or of the type gh gives them
TypedComment(comment) ==
    /\ comment.t = "dict"
    /\ comment.author \in {"absent", "dict"}
    /\ comment.login \in {"absent", "str"}
    /\ comment.body \in {"absent", "str"}

LoginWords ==
    {<<"b","o","t">>,
     <<"a","s","s","i","s","t","a","n","t">>,
     <<"r","e","v","i","e","w">>,
     <<"a","g","e","n","t">>,
     <<"l","i","b","r","s","v","g">>}
SignaturePhrases ==
    {<<"#","#"," ","c","a","t","e","g","o","r","i","e","s">>,
     <<"#","#"," ","f","o","c","u","s"," ","a","r","e","a","s">>,
     <<"#","#"," ","s","u","g","g","e","s","t","i","o","n","s">>,
     <<"#","#"," ","p","o","t","e","n","t","i","a","l"," ","i","s","s","u","e","s">>,
     <<"p","r"," ","r","e","v","i","e","w">>,
     <<"c","o","d","e"," ","r","e","v","i","e","w">>,
     <<"a","u","t","o","m","a","t","e","d"," ","r","e","v","i","e","w">>}

\* C27: is_agent_comment returns, and returns true exactly when the
\* lower-cased login contains one of the five login words or the lower-cased
\* body contains one of the seven signature phrases; login
\* librsvg-reviewer-bot is accepted with any body, a body with "## Focus Areas"
\* in any letter case with any login, and a comment whose author and body are
\* empty or absent is rejected
C27_AgentComment ==
    (fa_pc # "classify" /\ TypedComment(Classified)) =>
        /\ fa_pc = "done"
        /\ fa_ret \in {BoolValue(TRUE), BoolValue(FALSE)}
        /\ fa_ret.b <=>
              \/ \E word \in LoginWords : Contains(word, lower(LoginText(Classified)))
              \/ \E phrase \in SignaturePhrases : Contains(phrase, lower(BodyText(Classified)))
        /\ LoginText(Classified) = sLoginReviewerBot => fa_ret.b
        /\ Contains(sBodyFocusLower, lower(BodyText(Classified))) => fa_ret.b
        /\ (LoginText(Classified) = <<>> /\ BodyText(Classified) = <<>>) => ~fa_ret.b

\* witness of C27: a comment by alice is accepted for its body, which holds
\* the phrase in upper case
C27_Witness ==
    /\ fa_pc = "done"
    /\ LoginText(Classified) = sLoginHuman
    /\ BodyText(Classified) = sBodyFocusUpper
    /\ fa_ret = BoolValue(TRUE)

\* a comment with neither author nor body is rejected
C27_WitnessRejected ==
    /\ fa_pc = "done"
    /\ Classified.author = "absent" /\ Classified.body = "absent"
    /\ fa_ret = BoolValue(FALSE)

\* the ids given with --id, and the evaluations of the file that bear one of them
GivenIds == {args.id.ids[k] : k \in 1..Len(args.id.ids)}
Listed == SelectSeq(evaluations, LAMBDA e : e.id \in GivenIds)
RunEvaluationsReturned == pc = "final_save" \/ BatchReturned

(* C28: with a list of ids, the evaluations run are those of the file whose *)
(* id is in the list, once each and in the order of the file: the k-th      *)
(* result is that of the k-th such evaluation, a returned batch has one     *)
(* result for each of them, at most one PR is created for each, and every   *)
(* step (PR creation, sleep, query) belongs to an evaluation whose id is    *)
(* listed.                                                                  *)
C28_IdFilter ==
    /\ [](args.id.k = "list" =>
            /\ pc \in {"eval_begin", "create_pr", "poll", "query", "parse", "validate",
                       "eval_return", "final_save", "summary", "exit"}
                  => run_list = Listed
            /\ Len(results) <= Len(Listed)
            /\ \A k \in 1..Len(results) : results[k].evaluation_id = Listed[k].id
            /\ RunEvaluationsReturned => Len(results) = Len(Listed)
            /\ prs <= Len(Listed))
    /\ [][(args.id.k = "list" /\ (EvaluationStep \/ prs' # prs \/ results' # results))
             => /\ i \in 1..Len(run_list)
                /\ run_list[i].id \in GivenIds]_vars

\* witness of C28: --id 3,1,3 on a file of three evaluations returned the
\* results of evaluation 1 and evaluation 3, in that order, with two PRs created
C28_Witness ==
    /\ RunEvaluationsReturned
    /\ args.id = IdList(<<3, 1, 3>>)
    /\ Len(evaluations) = 3
    /\ Len(results) = 2
    /\ results[1].evaluation_id = 1
    /\ results[2].evaluation_id = 3
    /\ prs = 2

\* the result r compares the field actual with the field expected, each read
\* as the empty set when absent, under the exact or the subset policy
Compares(r, actual, expected, exact) ==
    /\ r.actual = NormalizedSet(actual)
    /\ r.expected = NormalizedSet(expected)
    /\ actual.k = "absent" => r.actual = {}
    /\ expected.k = "absent" => r.expected = {}
    /\ IF exact
       THEN /\ "extra" \in DOMAIN r
            /\ r.passed <=> (r.actual = r.expected)
       ELSE /\ "found" \in DOMAIN r
            /\ r.passed <=> (r.expected \subseteq r.actual)

\* C29: the validation compares parsed.categories with the evaluation's own
\* categories and parsed.focus_areas with expected_review.focus_areas, both
\* exactly, and parsed.suggestions and parsed.potential_issues with
\* expected_review.suggestions and expected_review.potential_issues as subsets;
\* an absent field counts as the empty set
C29_FieldMapping ==
    Validated =>
        /\ Compares(result.validation.categories, result.parsed_output.categories,
                    run_list[1].categories, TRUE)
        /\ Compares(result.validation.focus_areas, result.parsed_output.focus_areas,
                    run_list[1].expected_review.focus_areas, TRUE)
        /\ Compares(result.validation.suggestions, result.parsed_output.suggestions,
                    run_list[1].expected_review.suggestions, FALSE)
        /\ Compares(result.validation.potential_issues, result.parsed_output.potential_issues,
                    run_list[1].expected_review.potential_issues, FALSE)

\* witness of C29: the four expected fields differ from one dimension to the
\* next (one is absent), and so do the four results
C29_Witness ==
    /\ Validated
    /\ run_list[1].categories = Field("list", <<sSec>>)
    /\ run_list[1].expected_review.focus_areas = Field("list", <<sInputVariant>>)
    /\ run_list[1].expected_review.suggestions = AbsentField
    /\ run_list[1].expected_review.potential_issues = Field("list", <<sSec>>)
    /\ result.parsed_output.categories = Field("list", <<sSec>>)
    /\ result.parsed_output.focus_areas = Field("list", <<sSec>>)
    /\ result.parsed_output.suggestions = Field("list", <<sSec>>)
    /\ result.parsed_output.potential_issues = AbsentField
    /\ result.validation.categories.passed
    /\ ~result.validation.focus_areas.passed
    /\ result.validation.suggestions.passed
    /\ result.validation.suggestions.expected = {}
    /\ ~result.validation.potential_issues.passed
    /\ result.validation.potential_issues.actual = {}

(* C30: the result of run_single_evaluation starts with status pending; a   *)
(* step of the evaluation changes the status only from pending, and only to *)
(* passed, failed, timeout or error; the result handed back to              *)
(* run_evaluations has one of these four, and a result once appended is     *)
(* left as it is.                                                           *)
C30_StatusLifecycle ==
    /\ [](/\ pc = "create_pr" => result.status = "pending"
          /\ pc = "eval_return" => result.status \in TerminalStatuses
          /\ \A k \in 1..Len(results) : results[k].status \in TerminalStatuses)
    /\ [][/\ pc = "eval_begin" => (result' = result \/ result'.status = "pending")
          /\ (pc # "eval_begin" /\ result'.status # result.status)
                => (result.status = "pending" /\ result'.status \in TerminalStatuses)
          /\ Len(results') >= Len(results)
          /\ \A k \in 1..Len(results) : results'[k] = results[k]
          /\ Len(results') > Len(results)
                => results' = Append(results, result)]_vars

\* witness of C30: an evaluation ended with an error and was handed back, and
\* the next one has just been validated and passed
C30_Witness ==
    /\ pc = "eval_return"
    /\ Len(results) = 1
    /\ results[1].status = "error"
    /\ result.status = "passed"
    /\ result.validation.k = "dict"

\* the PRs of the evaluations that ended with status timeout
TimedOutPRs ==
    {results[k].pr_number : k \in {j \in 1..Len(results) : results[j].status = "timeout"}}
    \cup (IF pc = "eval_return" /\ result.status = "timeout" THEN {result.pr_number} ELSE {})

\* the step is a comment query
QueryStep == steps' = Append(steps, "query")

(* C31: a result with status timeout keeps the number and the URL of the PR *)
(* that was created; after the timeout no comment query is issued for that  *)
(* PR (every later query is a pending evaluation's, for another PR), and no *)
(* step takes a created PR away.                                            *)
C31_TimeoutAbandons ==
    /\ [](\A pr \in TimedOutPRs : pr.k = "int" /\ pr.v \in 1..prs)
    /\ [](\A k \in 1..Len(results) :
             results[k].status = "timeout" => results[k].pr_url = results[k].pr_number)
    /\ [][/\ prs' >= prs
          /\ TimedOutPRs \subseteq TimedOutPRs'
          /\ QueryStep => /\ result.status = "pending"
                          /\ result.pr_number \notin TimedOutPRs]_vars

\* witness of C31: the first evaluation timed out on PR 1, and the second
\* evaluation has queried the comments of PR 2
C31_Witness ==
    /\ Len(results) = 1
    /\ results[1].status = "timeout"
    /\ results[1].pr_number = IntValue(1)
    /\ results[1].pr_url = IntValue(1)
    /\ result.pr_number = IntValue(2)
    /\ \E k \in 1..Len(steps) : steps[k] = "query"

\* the response is a list of comments whose fields are absent or typed
WellFormedList(resp) ==
    /\ resp.rc = 0 /\ resp.out = "json" /\ resp.top = "dict" /\ resp.comments = "list"
    /\ \A k \in 1..Len(resp.items) : TypedComment(resp.items[k])

\* a list with two accepted comments on which the two fetches give different bodies
TwoFetchesDisagree(resp) ==
    /\ WellFormedList(resp)
    /\ Cardinality(AcceptedIndexes(resp.items)) >= 2
    /\ FetchAttempt(resp).exc = "none"
    /\ fetch_latest_agent_comment(resp).exc = "none"
    /\ FetchAttempt(resp).val # fetch_latest_agent_comment(resp).val

(* C32: on a list of comments of which exactly one is accepted, the        *)
(* poller's pass and the non-blocking fetch both return the body of that    *)
(* comment; and some list with two accepted comments makes them return      *)
(* different bodies.                                                        *)
C32_SameWhenUnique ==
    /\ (/\ fa_pc = "done"
        /\ WellFormedList(fa_last)
        /\ Cardinality(AcceptedIndexes(fa_last.items)) = 1) =>
           /\ fa_ret.first.exc = "none" /\ fa_ret.first.found
           /\ fa_ret.latest.exc = "none"
           /\ fa_ret.first.val = fa_ret.latest.val
           /\ \A k \in AcceptedIndexes(fa_last.items) :
                 fa_ret.first.val = CommentBody(fa_last.items[k])
    /\ \E resp \in LatestResponses : TwoFetchesDisagree(resp)

\* witness of C32: of a human's and the bot's comment, both fetches return the bot's
C32_Witness ==
    /\ fa_pc = "done"
    /\ fa_last.items = <<cHuman, cBot>>
    /\ fa_ret.first.val = StrValue(sBodyPlain)
    /\ fa_ret.latest.val = StrValue(sBodyPlain)

\* two accepted comments, the first in the list is not the latest: the poller
\* returns the one, the non-blocking fetch the other
C32_WitnessDisagree ==
    /\ fa_pc = "done"
    /\ fa_last.items = <<cBot, cBotLate>>
    /\ fa_ret.first.val = StrValue(sBodyPlain)
    /\ fa_ret.latest.val = StrValue(sBodyLate)

\* the positions of the evaluation's steps that are comment queries
QueryPositions == {k \in 1..Len(steps) : steps[k] = "query"}
Ceil(a, b) == (a + b - 1) \div b

(* C33: in the polling loop every query comes right after a sleep, so none  *)
(* is made at elapsed time 0; and when the loop ends in a timeout it has    *)
(* made ceil(max_wait / poll_interval) queries, none when max_wait <= 0.    *)
C33_QueriesBeforeTimeout ==
    /\ \A k \in QueryPositions : k > 1 /\ steps[k - 1] = "sleep"
    /\ pc = "query" => elapsed >= poll_interval /\ elapsed > 0
    /\ (pc = "eval_return" /\ result.status = "timeout") =>
          Cardinality(QueryPositions) =
             (IF max_wait <= 0 THEN 0 ELSE Ceil(max_wait, poll_interval))

\* witness of C33: a budget of 10 polled every 4 timed out after three queries
C33_Witness ==
    /\ pc = "eval_return"
    /\ result.status = "timeout"
    /\ max_wait = 10
    /\ poll_interval = 4
    /\ steps = <<"create", "sleep", "query", "sleep", "query", "sleep", "query">>

\* fetch_agent_comment has returned or raised (or was not called)
FetchEnded == fa_pc \in {"idle", "done", "raised", "timeout"}
\* run_evaluations has returned or raised (or was not called)
RunEvaluationsEnded == pc \in {"idle", "final_save", "summary", "exit", "exited"}

(* C34: with a positive poll interval and a finite budget, whatever the     *)
(* queries return, fetch_agent_comment ends, the polling loop of an         *)
(* evaluation that has begun to poll is left (for the parser or with a      *)
(* result), and run_evaluations ends; every sleep of either loop brings     *)
(* the elapsed time closer to the budget.                                   *)
C34_Terminates ==
    /\ <>[](FetchEnded /\ RunEvaluationsEnded)
    /\ (pc = "poll" /\ elapsed = 0) ~> (pc \in {"parse", "eval_return"})
    /\ (fa_pc = "loop") ~> FetchEnded
    /\ [][/\ steps' = Append(steps, "sleep") => elapsed' > elapsed
          /\ fa_sleeps' # fa_sleeps => fa_elapsed' > fa_elapsed]_vars

\* witness of C34: a batch of two evaluations has been run to its end after
\* an evaluation slept through its whole budget
C34_Witness ==
    /\ pc = "final_save"
    /\ Len(results) = 2
    /\ results[1].status = "timeout"
    /\ max_wait > 0

\* the results run_single_evaluation has returned: those appended, and the
\* one being handed back
Returned ==
    {results[k] : k \in 1..Len(results)}
    \cup (IF pc = "eval_return" THEN {result} ELSE {})

\* what the claim says of the fields of a result, by its status
FieldConsistent(r) ==
    /\ r.status = "passed" =>
          /\ r.validation.k = "dict" /\ r.validation.overall_pass
          /\ r.agent_comment.k = "str" /\ Len(r.agent_comment.s) > 0
          /\ r.error = NoError
    /\ r.status = "timeout" =>
          /\ r.pr_number.k = "int"
          /\ r.agent_comment = NoneValue
          /\ r.parsed_output = NoneDict
          /\ r.validation = NoneDict
    /\ r.status = "failed" =>
          \/ r.pr_number = NoneInt /\ r.validation = NoneDict
          \/ r.validation.k = "dict" /\ ~r.validation.overall_pass
    /\ r.status = "error" => r.error.k = "str"

\* C35: every result run_single_evaluation returns has the fields its status
\* calls for: passed, timeout, failed and error as the claim lists them
C35_FieldConsistent == \A r \in Returned : FieldConsistent(r)

\* witness of C35: one batch returned a passed result, a timeout, and a
\* failure for want of a PR
C35_Witness ==
    /\ pc = "eval_return"
    /\ \E r \in Returned : r.status = "passed"
    /\ \E r \in Returned : r.status = "timeout"
    /\ \E r \in Returned : r.status = "failed" /\ r.pr_number = NoneInt

(* C36: while every query selects a comment whose body is empty, absent or *)
(* null, the evaluation stores no comment and goes on polling; the parser  *)
(* is never called; and the loop ends, after the queries of the whole      *)
(* budget, with status timeout.                                            *)
C36_EmptyBodyIsNoComment ==
    /\ pc # "parse"
    /\ ~ParsedOrValidated
    /\ result.agent_comment = NoneValue
    /\ pc = "eval_return" =>
          /\ result.status = "timeout"
          /\ Cardinality(QueryPositions) =
                (IF max_wait <= 0 THEN 0 ELSE Ceil(max_wait, poll_interval))

\* witness of C36: two queries found a comment without a body, and the
\* evaluation timed out
C36_Witness ==
    /\ pc = "eval_return"
    /\ result.status = "timeout"
    /\ steps = <<"create", "sleep", "query", "sleep", "query">>

(* ------------------------------------------------------------------ *)
(* C37: what the checkpoints hold                                      *)
(* ------------------------------------------------------------------ *)
\* the checkpoints written inside run_evaluations' loop, in the order written
LoopCheckpoints == SelectSeq(saves, LAMBDA s : s.by = "run_evaluations")

\* rs holds the results of evaluations 1..n of the filtered list, in order
ResultsOfFirst(rs, n) ==
    /\ Len(rs) = n
    /\ n <= Len(run_list)
    /\ \A k \in 1..n : /\ rs[k].evaluation_id = run_list[k].id
                       /\ rs[k] = results[k]

IsPrefix(a, b) == Len(a) <= Len(b) /\ a = SubSeq(b, 1, Len(a))

\* C37: the k-th checkpoint of run_evaluations is written after evaluation
\* i = min(5k, total) and holds exactly the results of evaluations 1..i of the
\* filtered list, in order; every checkpoint's result list is a prefix of each
\* later one's; and the final checkpoint, written by main, holds one result per
\* evaluation of the filtered list.
C37_CheckpointPrefix ==
    /\ \A k \in 1..Len(LoopCheckpoints) :
          ResultsOfFirst(LoopCheckpoints[k].results,
                         Min({CheckpointEvery * k, Len(run_list)}))
    /\ \A a \in 1..Len(saves) : \A b \in a..Len(saves) :
          IsPrefix(saves[a].results, saves[b].results)
    /\ \A k \in 1..Len(saves) :
          saves[k].by = "main" =>
             /\ k = Len(saves)
             /\ ResultsOfFirst(saves[k].results, Len(run_list))
    /\ CheckpointDue(Len(results), Len(run_list)) /\ Len(results) > 0 =>
          /\ Len(LoopCheckpoints) > 0
          /\ LoopCheckpoints[Len(LoopCheckpoints)].results = results

\* a filtered run of ten evaluations: checkpoints after the fifth and the tenth,
\* then main's, the first a proper prefix of the last
C37_Witness ==
    /\ args.id.k = "list"
    /\ Len(evaluations) = 11
    /\ Len(run_list) = 10
    /\ Len(saves) = 3
    /\ Len(saves[1].results) = 5
    /\ Len(saves[2].results) = 10
    /\ saves[3].by = "main"
    /\ saves[3].results[3].evaluation_id = 4

(* ------------------------------------------------------------------ *)
(* C38: passing and scoring 100                                        *)
(* ------------------------------------------------------------------ *)
\* the validation as a whole scores 100
FullOverallScore ==
    /\ result.validation.overall_score.d > 0
    /\ result.validation.overall_score.n = result.validation.overall_score.d

\* C38: whenever validate_strict returns, overall_pass = true implies
\* overall_score = 100, and in each subset dimension (suggestions,
\* potential_issues) passed is true exactly when match_percentage is 100.
C38_PassIsFullScore ==
    Validated =>
        /\ result.validation.overall_pass => FullOverallScore
        /\ \A dimension \in SubsetDimensions :
              ResultOf(dimension).passed <=> FullScore(dimension)

\* witness of C38: the validation passes and scores 100 although the actual
\* suggestions hold an item more than the expected ones
C38_Witness ==
    /\ Validated
    /\ result.validation.overall_pass
    /\ FullOverallScore
    /\ result.validation.suggestions.passed
    /\ Cardinality(result.validation.suggestions.actual) = 2
    /\ Cardinality(result.validation.suggestions.expected) = 1
====
